---------------------------- MODULE Spec2Model ----------------------------
(***************************************************************************)
(* Generation-and-verification engine of the squarewise puzzle game:       *)
(* seeded random source, Latin square generator, cage partitioner, clue    *)
(* deriver, backtracking solver and the retry orchestrator.                *)
(*                                                                         *)
(* Grids are functions over 0..N-1 (the code's row and column indices);    *)
(* arrays are sequences (index k of the code is index k+1 here).           *)
(***************************************************************************)
EXTENDS Integers, Sequences, FiniteSets, TLC

VARIABLES
  \* generateLatinSquare, one random draw per step
  lsSize, square, lsPhase, lsI, numSwaps, swap,
  \* generateCages / growCage, one random draw per step
  cgSize, cgMin, cgMax, cages, visited, cells, targetSize, cgPhase,
  \* one call of calculateClue followed by validateClue on its result
  clCells, clSolution, clOperations, clClue, clValid, clPhase,
  \* a call of solvePuzzle followed by one of hasUniqueSolution on the same puzzle
  svPuzzle, svSolved, svTimer, svUnique,
  \* Date.now()
  clock,
  \* one call of generatePuzzle by a caller that catches its failure: the
  \* config, the position in the function, the seed field of its SeededRNG, the
  \* locals attempts and puzzle, the timer and the result of hasUniqueSolution,
  \* what the call returned or threw, and the candidates it has built so far
  gnConfig, gnPc, gnRng, attempts, gnPuzzle, gnTimer, hasUnique, gnOutcome, gnHistory,
  \* a Validator and its caller: the puzzle the Validator was constructed with,
  \* the row arrays that exist (a row array is named by its index here), the
  \* caller's progress grid as the list of its row arrays, and the last call
  \* of a Validator method or of getHint with what it returned
  vdPuzzle, vdHeap, vdGrid, vdCall, vdResult,
  \* a SeededRNG and its user: the seed field, the number of draws so far,
  \* and the last call of nextInt or pick with what it returned
  rgSeed, rgDraws, rgCall,
  \* a Game that is being played: the puzzle and the fields grid, selectedCell,
  \* status, errors and hintsUsed of its StateManager, the hintsUsed of its
  \* HintSystem, the two stacks of its UndoStack, and the last two handler
  \* calls (the latest first) with the grid each found
  gmPuzzle, gmGrid, gmSelected, gmStatus, gmErrors, gmHintsUsed, hsHintsUsed,
  undoStack, redoStack, gmLog,
  \* one search of the solver, a step at a time: the puzzle, the mode (backtrack
  \* or countSolutions), the working grid, the recursion levels that have not
  \* returned (the innermost last), solutionCount, the value the level that
  \* returned last has returned with the grid it had found on entry, and the
  \* result of the search
  shPuzzle, shMode, shGrid, shStack, shCount, shReturned, shResult,
  \* generatePuzzle calls that are in flight together: for each call its config,
  \* position, seed field, attempts, candidate, timer, check result, promise,
  \* and the numbers of timers set, counts run and promises resolved
  calls

latinVars == <<lsSize, square, lsPhase, lsI, numSwaps, swap>>
cageVars == <<cgSize, cgMin, cgMax, cages, visited, cells, targetSize, cgPhase>>
clueVars == <<clCells, clSolution, clOperations, clClue, clValid, clPhase>>
solverVars == <<svPuzzle, svSolved, svTimer, svUnique>>
genVars == <<clock, gnConfig, gnPc, gnRng, attempts, gnPuzzle, gnTimer, hasUnique,
             gnOutcome, gnHistory>>

validatorVars == <<vdPuzzle, vdHeap, vdGrid, vdCall, vdResult>>
rngVars == <<rgSeed, rgDraws, rgCall>>
gameVars == <<gmPuzzle, gmGrid, gmSelected, gmStatus, gmErrors, gmHintsUsed, hsHintsUsed,
              undoStack, redoStack, gmLog>>
searchVars == <<shPuzzle, shMode, shGrid, shStack, shCount, shReturned, shResult>>
pairVars == <<calls>>

vars == <<latinVars, cageVars, clueVars, solverVars, genVars, validatorVars, rngVars,
          gameVars, searchVars, pairVars>>

\* the state of a component that a specification leaves out
CageIdle ==
  /\ cgSize = 0 /\ cgMin = 0 /\ cgMax = 0
  /\ cages = <<>> /\ visited = {} /\ cells = <<>>
  /\ targetSize = 0 /\ cgPhase = "idle"

ClueIdle ==
  /\ clCells = <<>> /\ clSolution = <<>> /\ clOperations = {}
  /\ clClue = <<>> /\ clValid = FALSE /\ clPhase = "idle"

SolverIdle ==
  /\ svPuzzle = <<>> /\ svTimer = "idle"
  /\ svSolved = [returned |-> FALSE, grid |-> <<>>]
  /\ svUnique = [resolved |-> FALSE, value |-> FALSE]

GenIdle ==
  /\ clock = 0 /\ gnConfig = <<>> /\ gnPc = "idle" /\ gnRng = <<>> /\ attempts = 0
  /\ gnPuzzle = <<>> /\ gnTimer = "idle" /\ hasUnique = FALSE
  /\ gnOutcome = "idle" /\ gnHistory = <<>>

LatinIdle ==
  /\ lsSize = 0 /\ square = <<>> /\ lsPhase = "idle"
  /\ lsI = 0 /\ numSwaps = 0 /\ swap = 0

ValidatorIdle ==
  /\ vdPuzzle = <<>> /\ vdHeap = <<>> /\ vdGrid = <<>>
  /\ vdCall = <<>> /\ vdResult = <<>>

RngIdle == rgSeed = <<>> /\ rgDraws = 0 /\ rgCall = <<>>

GameIdle ==
  /\ gmPuzzle = <<>> /\ gmGrid = <<>> /\ gmSelected = <<>> /\ gmStatus = "idle"
  /\ gmErrors = <<>> /\ gmHintsUsed = 0 /\ hsHintsUsed = 0
  /\ undoStack = <<>> /\ redoStack = <<>> /\ gmLog = <<>>

SearchIdle ==
  /\ shPuzzle = <<>> /\ shMode = "idle" /\ shGrid = <<>> /\ shStack = <<>>
  /\ shCount = 0 /\ shReturned = <<>> /\ shResult = <<>>

PairIdle == calls = <<>>

(***************************************************************************)
(* Bounds of the model.                                                    *)
(***************************************************************************)
LatinMaxSize == 3
\* grid sizes of the cage partitioner runs (a 4 x 4 grid has too many partitions to enumerate)
CageGridSizes == 1 .. 3
CageMaxBound == 3
ClueMaxValue == 4
ClueMaxCells == 3
SolverMaxTarget == 6
GenMaxSeedLen == 2
MaxClock == 1
ValidatorMaxFilled == 2
ValidatorMaxTarget == 4
RngMaxBound == 2
RngMaxLength == 3
RngMaxDraws == 1
\* grid sizes of the generatePuzzle calls: two that are verified, one above the threshold
GenSizes == {2, 3, 8}
\* the characters of the seed strings: "3" .. "5"
SeedChars == 51 .. 53
\* grid sizes of the solver runs
SolverSizes == 2 .. 3

Idx(n) == 0 .. (n - 1)

(***************************************************************************)
(* Deterministic random source (utils/rng.ts).  A 32-bit word is a record  *)
(* of its two 16-bit halves, so that no intermediate value exceeds 2^31.   *)
(* The seed field is kept modulo 2^32: next() reads it only through 32-bit *)
(* operators.                                                              *)
(***************************************************************************)

Half == 65536

Word(h, l) == [hi |-> h, lo |-> l]

\* x + y modulo 2^32
AddW(x, y) ==
  Word((x.hi + y.hi + ((x.lo + y.lo) \div Half)) % Half, (x.lo + y.lo) % Half)

\* bitwise exclusive or of two n-bit numbers, n a power of two: the upper and
\* the lower halves are combined separately
RECURSIVE XorBits(_, _, _)
XorBits(x, y, n) ==
  IF n = 1 THEN (x + y) % 2
  ELSE XorBits(x \div (2 ^ (n \div 2)), y \div (2 ^ (n \div 2)), n \div 2) * (2 ^ (n \div 2))
       + XorBits(x % (2 ^ (n \div 2)), y % (2 ^ (n \div 2)), n \div 2)

\* bitwise or of two n-bit numbers, n a power of two
RECURSIVE OrBits(_, _, _)
OrBits(x, y, n) ==
  IF n = 1 THEN (IF x = 1 \/ y = 1 THEN 1 ELSE 0)
  ELSE OrBits(x \div (2 ^ (n \div 2)), y \div (2 ^ (n \div 2)), n \div 2) * (2 ^ (n \div 2))
       + OrBits(x % (2 ^ (n \div 2)), y % (2 ^ (n \div 2)), n \div 2)

\* the exclusive or and the or of two 4-bit numbers, tabulated
XorTable == [a \in 0 .. 15 |-> [b \in 0 .. 15 |-> XorBits(a, b, 4)]]

OrTable == [a \in 0 .. 15 |-> [b \in 0 .. 15 |-> OrBits(a, b, 4)]]

\* a table applied to two 16-bit numbers, four bits at a time
ByNibbles(table, x, y) ==
  table[x \div 4096][y \div 4096] * 4096
  + table[(x \div 256) % 16][(y \div 256) % 16] * 256
  + table[(x \div 16) % 16][(y \div 16) % 16] * 16
  + table[x % 16][y % 16]

\* x ^ y
XorW(x, y) == Word(ByNibbles(XorTable, x.hi, y.hi), ByNibbles(XorTable, x.lo, y.lo))

\* x | c for a constant c below 2^16
OrW(x, c) == Word(x.hi, ByNibbles(OrTable, x.lo, c))

\* x >>> n for 0 < n < 16
ShrW(x, n) ==
  Word(x.hi \div (2 ^ n), (x.lo \div (2 ^ n)) + (x.hi % (2 ^ n)) * (2 ^ (16 - n)))

\* x << n modulo 2^32 for 0 < n < 16
ShlW(x, n) ==
  Word(((x.hi % (2 ^ (16 - n))) * (2 ^ n)) + (x.lo \div (2 ^ (16 - n))),
       (x.lo % (2 ^ (16 - n))) * (2 ^ n))

\* the product of two 16-bit numbers, as a word
Mul16(x, y) ==
  LET p1 == (x \div 256) * y
      p0 == (x % 256) * y
      low == (p1 % 256) * 256 + p0
  IN Word((p1 \div 256) + (low \div Half), low % Half)

\* Math.imul(x, y): the low 32 bits of the product
ImulW(x, y) ==
  LET ll == Mul16(x.lo, y.lo)
  IN Word((ll.hi + Mul16(x.hi, y.lo).lo + Mul16(x.lo, y.hi).lo) % Half, ll.lo)

\* line 33: 0x6d2b79f5
Increment == Word(27947, 31221)

\* lines 20-27: djb2 over the character codes of the string
RECURSIVE HashFrom(_, _, _)
HashFrom(hash, str, i) ==
  IF i > Len(str) THEN hash
  ELSE HashFrom(AddW(AddW(ShlW(hash, 5), hash), Word(0, str[i])), str, i + 1)

hashString(str) == HashFrom(Word(0, 5381), str, 1)

\* lines 8-15 and 89-91, for a string seed
createRNG(seed) == hashString(seed)

\* line 36: t ^ (t >>> 14), as an unsigned word
Temper(t) == XorW(t, ShrW(t, 14))

\* line 35: t ^= t + Math.imul(t ^ (t >>> 7), t | 61)
Scramble(t) == XorW(t, AddW(t, ImulW(XorW(t, ShrW(t, 7)), OrW(t, 61))))

\* lines 33-36 for the advanced seed s: the seed and the 32-bit numerator of the
\* result
NextFrom(s) ==
  [seed |-> s, numerator |-> Temper(Scramble(ImulW(XorW(s, ShrW(s, 15)), OrW(s, 1))))]

\* lines 32-37
next(seed) == NextFrom(AddW(seed, Increment))

\* floor(numerator / 2^32 * n) for 0 < n < 2^15
ScaleFloor(u, n) == (u.hi * n + ((u.lo * n) \div Half)) \div Half

\* line 43 for the result r of next()
Scaled(r, min, max) ==
  [seed |-> r.seed, value |-> ScaleFloor(r.numerator, max - min + 1) + min]

\* a nextInt that can return max + 1
nextIntOffByOne(seed, min, max) == Scaled(next(seed), min, max + 1)

\* lines 42-44: Math.floor(this.next() * (max - min + 1)) + min
nextInt(seed, min, max) == Scaled(next(seed), min, max)

\* line 64 for the drawn index; an index outside the array reads undefined
Picked(r, array) ==
  [seed |-> r.seed,
   value |-> IF r.value + 1 \in DOMAIN array THEN array[r.value + 1] ELSE "undefined"]

\* lines 63-65: array[this.nextInt(0, array.length - 1)]
pick(seed, array) == Picked(nextInt(seed, 0, Len(array) - 1), array)


(***************************************************************************)
(* Latin square generator (engine/generator/LatinSquare.ts).               *)
(***************************************************************************)

\* lines 11-17: square[row][col] = ((row + col) % size) + 1
BasePattern(size) ==
  [row \in Idx(size) |-> [col \in Idx(size) |-> ((row + col) % size) + 1]]

\* line 24: [square[i], square[j]] = [square[j], square[i]]
SwapRows(sq, i, j) ==
  [row \in DOMAIN sq |-> IF row = i THEN sq[j] ELSE IF row = j THEN sq[i] ELSE sq[row]]

\* a column swap that forgets the loop over the rows
SwapColsFirstRowOnly(sq, i, j) ==
  [row \in DOMAIN sq |->
    IF row # 0 THEN sq[row]
    ELSE [col \in DOMAIN sq[row] |->
           IF col = i THEN sq[row][j] ELSE IF col = j THEN sq[row][i] ELSE sq[row][col]]]

\* lines 30-32: for every row, swap the entries of columns i and j
SwapCols(sq, i, j) ==
  [row \in DOMAIN sq |->
    [col \in DOMAIN sq[row] |->
      IF col = i THEN sq[row][j] ELSE IF col = j THEN sq[row][i] ELSE sq[row][col]]]

\* lines 40-50: if a # b, every a becomes b and every b becomes a
RemapValues(sq, a, b) ==
  IF a = b THEN sq
  ELSE [row \in DOMAIN sq |->
         [col \in DOMAIN sq[row] |->
           LET v == sq[row][col]
           IN IF v = a THEN b ELSE IF v = b THEN a ELSE v]]

\* lines 59-87: every row and every column is exactly the set 1..size
isValidLatinSquare(grid, size) ==
  /\ DOMAIN grid = Idx(size)
  /\ \A row \in Idx(size) : DOMAIN grid[row] = Idx(size)
  /\ \A row \in Idx(size) : {grid[row][col] : col \in Idx(size)} = 1 .. size
  /\ \A col \in Idx(size) : {grid[row][col] : row \in Idx(size)} = 1 .. size

\* where the generator goes once a shuffle loop (i from size-1 down to 1) has ended
AfterShuffle(phase) == IF phase = "rows" THEN "cols" ELSE "numSwaps"

LatinInit ==
  /\ lsSize \in 2 .. LatinMaxSize
  /\ square = BasePattern(lsSize)
  /\ lsPhase = "rows"
  /\ lsI = lsSize - 1
  /\ numSwaps = 0
  /\ swap = 0
  /\ CageIdle
  /\ ClueIdle
  /\ SolverIdle
  /\ GenIdle
  /\ ValidatorIdle
  /\ RngIdle
  /\ GameIdle
  /\ SearchIdle
  /\ PairIdle

\* lines 22-25, one iteration: j = rng.nextInt(0, i)
ShuffleRowStep ==
  /\ lsPhase = "rows"
  /\ lsI > 0
  /\ \E j \in 0 .. lsI : square' = SwapRows(square, lsI, j)
  /\ IF lsI - 1 > 0
       THEN lsI' = lsI - 1 /\ lsPhase' = lsPhase
       ELSE lsI' = lsSize - 1 /\ lsPhase' = AfterShuffle(lsPhase)
  /\ UNCHANGED <<lsSize, numSwaps, swap>>
  /\ UNCHANGED <<cageVars, clueVars, solverVars, genVars, validatorVars, rngVars,
               gameVars, searchVars, pairVars>>

\* lines 28-33, one iteration: j = rng.nextInt(0, i)
ShuffleColStep ==
  /\ lsPhase = "cols"
  /\ lsI > 0
  /\ \E j \in 0 .. lsI : square' = SwapCols(square, lsI, j)
  /\ IF lsI - 1 > 0
       THEN lsI' = lsI - 1 /\ lsPhase' = lsPhase
       ELSE lsI' = lsSize - 1 /\ lsPhase' = AfterShuffle(lsPhase)
  /\ UNCHANGED <<lsSize, numSwaps, swap>>
  /\ UNCHANGED <<cageVars, clueVars, solverVars, genVars, validatorVars, rngVars,
               gameVars, searchVars, pairVars>>

\* line 36: numSwaps = rng.nextInt(5, 15)
DrawNumSwaps ==
  /\ lsPhase = "numSwaps"
  /\ \E n \in 5 .. 15 : numSwaps' = n
  /\ swap' = 0
  /\ lsPhase' = "remap"
  /\ UNCHANGED <<lsSize, square, lsI>>
  /\ UNCHANGED <<cageVars, clueVars, solverVars, genVars, validatorVars, rngVars,
               gameVars, searchVars, pairVars>>

\* lines 37-51, one iteration: a, b = rng.nextInt(1, size)
RemapStep ==
  /\ lsPhase = "remap"
  /\ swap < numSwaps
  /\ \E a \in 1 .. lsSize, b \in 1 .. lsSize : square' = RemapValues(square, a, b)
  /\ swap' = swap + 1
  /\ lsPhase' = IF swap + 1 < numSwaps THEN "remap" ELSE "done"
  /\ UNCHANGED <<lsSize, lsI, numSwaps>>
  /\ UNCHANGED <<cageVars, clueVars, solverVars, genVars, validatorVars, rngVars,
               gameVars, searchVars, pairVars>>

LatinNext == ShuffleRowStep \/ ShuffleColStep \/ DrawNumSwaps \/ RemapStep

SpecLatin == LatinInit /\ [][LatinNext]_vars

\* C1: at every point of generateLatinSquare (after the base pattern, after each
\* row swap, each column swap and each value transposition) the grid is N x N and
\* every row and every column holds each of 1..N exactly once.
C1_LatinSquareInvariant == isValidLatinSquare(square, lsSize)

\* the generator has returned a size-3 square that the shuffles have changed
C1_Witness ==
  /\ lsPhase = "done"
  /\ lsSize = 3
  /\ square # BasePattern(lsSize)
  /\ square[0][0] = 3


(***************************************************************************)
(* Cage partitioner (engine/generator/CageGenerator.ts).                   *)
(***************************************************************************)

Cell(r, c) == [row |-> r, col |-> c]

AllCells(size) == {Cell(r, c) : r \in Idx(size), c \in Idx(size)}

\* the cell the row-major loops (lines 30-31) reach at their k-th iteration
CellAt(size, k) == Cell(k \div size, k % size)

\* the set of the elements of a sequence
Range(seq) == {seq[k] : k \in DOMAIN seq}

\* up, down, left, right and a diagonal
DirectionsWithDiagonal == << <<-1, 0>>, <<1, 0>>, <<0, -1>>, <<0, 1>>, <<1, 1>> >>

\* lines 104-109: up, down, left, right
Directions == << <<-1, 0>>, <<1, 0>>, <<0, -1>>, <<0, 1>> >>

\* lines 111-129 from the k-th cage cell and its d-th direction on; acc is the
\* list built so far (seen is the set of its elements)
RECURSIVE NeighborScan(_, _, _, _, _, _)
NeighborScan(cageCells, size, vis, k, d, acc) ==
  IF k > Len(cageCells) THEN acc
  ELSE IF d > Len(Directions) THEN NeighborScan(cageCells, size, vis, k + 1, 1, acc)
  ELSE
    LET new == Cell(cageCells[k].row + Directions[d][1], cageCells[k].col + Directions[d][2])
        ok == /\ new.row >= 0 /\ new.row < size
              /\ new.col >= 0 /\ new.col < size
              /\ new \notin vis
              /\ new \notin Range(cageCells)
              /\ new \notin Range(acc)
    IN NeighborScan(cageCells, size, vis, k, d + 1, IF ok THEN Append(acc, new) ELSE acc)

\* a neighbour search that never looks to the right
NeighborsNoRight(cageCells, size, vis) ==
  SelectSeq(NeighborScan(cageCells, size, vis, 1, 1, <<>>),
            LAMBDA n : \E c \in Range(cageCells) :
                         (c.row # n.row \/ n.col < c.col) /\
                         (IF c.row > n.row THEN c.row - n.row ELSE n.row - c.row) +
                         (IF c.col > n.col THEN c.col - n.col ELSE n.col - c.col) = 1)

\* lines 95-132; cageCellsSet always holds exactly the cells of cageCells (lines 73-74, 86)
getUnvisitedNeighbors(cageCells, size, vis) ==
  NeighborScan(cageCells, size, vis, 1, 1, <<>>)

\* the values nextInt(min, max) = floor(next() * (max - min + 1)) + min can take
\* for next() in [0, 1): min..max, and max+1..min when max < min
NextIntRange(min, max) == IF min <= max THEN min .. max ELSE (max + 1) .. min

\* marks only the start cell of the new cage
MarkFirstVisited(vis, cageCells) == vis \cup {cageCells[1]}

\* lines 48-50: every cell of the new cage is visited
MarkVisited(vis, cageCells) == vis \cup Range(cageCells)

\* lines 39-43: the new cage, with the placeholder clue
NewCage(id, cageCells) ==
  [id |-> id, cells |-> cageCells, clue |-> [target |-> 0, operation |-> "+"]]

\* every cell of every cage, in cage order
RECURSIVE CageCellList(_)
CageCellList(cs) ==
  IF cs = <<>> THEN <<>> ELSE CageCellList(SubSeq(cs, 1, Len(cs) - 1)) \o cs[Len(cs)].cells

\* lines 137-160: no cell listed twice, and every cell of the grid listed
validateCageCoverage(cs, size) ==
  LET list == CageCellList(cs)
  IN /\ \A i, j \in DOMAIN list : i # j => list[i] # list[j]
     /\ \A r \in Idx(size), c \in Idx(size) : Cell(r, c) \in Range(list)

\* lines 24-27: generateCages(size, rng, {minSize, maxSize})
CagesInit ==
  /\ cgSize \in CageGridSizes
  /\ cgMin \in 0 .. CageMaxBound
  /\ cgMax \in 0 .. CageMaxBound
  /\ cages = <<>>
  /\ visited = {}
  /\ cells = <<>>
  /\ targetSize = 0
  /\ cgPhase = "scan"
  /\ LatinIdle
  /\ ClueIdle
  /\ SolverIdle
  /\ GenIdle
  /\ ValidatorIdle
  /\ RngIdle
  /\ GameIdle
  /\ SearchIdle
  /\ PairIdle

\* lines 30-36 and 69-74: the loops skip the visited cells; growCage starts at the
\* first unvisited cell and draws targetSize = rng.nextInt(minSize, maxSize)
StartCage ==
  /\ cgPhase = "scan"
  /\ \E k \in 0 .. (cgSize * cgSize - 1) :
       /\ CellAt(cgSize, k) \notin visited
       /\ \A m \in 0 .. (k - 1) : CellAt(cgSize, m) \in visited
       /\ cells' = <<CellAt(cgSize, k)>>
  /\ \E t \in NextIntRange(cgMin, cgMax) : targetSize' = t
  /\ cgPhase' = "grow"
  /\ UNCHANGED <<cgSize, cgMin, cgMax, cages, visited>>
  /\ UNCHANGED <<latinVars, clueVars, solverVars, genVars, validatorVars, rngVars,
               gameVars, searchVars, pairVars>>

\* lines 77-87, one iteration that adds a cell: next = rng.pick(neighbors)
GrowStep ==
  /\ cgPhase = "grow"
  /\ Len(cells) < targetSize
  /\ LET neighbors == getUnvisitedNeighbors(cells, cgSize, visited)
     IN /\ neighbors # <<>>
        /\ \E k \in 1 .. Len(neighbors) : cells' = Append(cells, neighbors[k])
  /\ UNCHANGED <<cgSize, cgMin, cgMax, cages, visited, targetSize, cgPhase>>
  /\ UNCHANGED <<latinVars, clueVars, solverVars, genVars, validatorVars, rngVars,
               gameVars, searchVars, pairVars>>

\* lines 77/81 (loop exit), 89 and 39-50: the cage is pushed and its cells are
\* visited; line 54 once the loops find no unvisited cell
CloseCage ==
  /\ cgPhase = "grow"
  /\ \/ Len(cells) >= targetSize
     \/ getUnvisitedNeighbors(cells, cgSize, visited) = <<>>
  /\ cages' = Append(cages, NewCage(Len(cages), cells))
  /\ visited' = MarkVisited(visited, cells)
  /\ cells' = <<>>
  /\ cgPhase' = IF AllCells(cgSize) \subseteq visited' THEN "done" ELSE "scan"
  /\ UNCHANGED <<cgSize, cgMin, cgMax, targetSize>>
  /\ UNCHANGED <<latinVars, clueVars, solverVars, genVars, validatorVars, rngVars,
               gameVars, searchVars, pairVars>>

CagesNext == StartCage \/ GrowStep \/ CloseCage

SpecCages == CagesInit /\ [][CagesNext]_vars

Abs(x) == IF x < 0 THEN -x ELSE x

Manhattan(a, b) == Abs(a.row - b.row) + Abs(a.col - b.col)

\* C2: the cages returned by generateCages partition the grid: every cell of the
\* grid is in exactly one cage, at exactly one position, and validateCageCoverage
\* accepts the result; while the cages are built no cell is claimed twice.
C2_CagesPartitionGrid ==
  LET list == CageCellList(cages)
  IN /\ Cardinality(Range(list)) = Len(list)
     /\ cgPhase = "done" =>
          /\ validateCageCoverage(cages, cgSize)
          /\ Range(list) = AllCells(cgSize)
          /\ Len(list) = cgSize * cgSize

\* a 3 x 3 grid has been partitioned into four cages of which one has three cells
C2_Witness ==
  /\ cgPhase = "done"
  /\ cgSize = 3
  /\ \E k \in DOMAIN cages : Len(cages[k].cells) = 3
  /\ Len(cages) = 4

\* C7: every cage is one 4-connected region: every cell after the first is at
\* Manhattan distance 1 from a cell before it in the cage's cell order.
C7_CagesConnected ==
  \A k \in DOMAIN cages :
    \A i \in 2 .. Len(cages[k].cells) :
      \E j \in 1 .. (i - 1) : Manhattan(cages[k].cells[i], cages[k].cells[j]) = 1

\* a finished cage of three cells that is not a straight line
C7_Witness ==
  \E k \in DOMAIN cages :
    /\ Len(cages[k].cells) = 3
    /\ cages[k].cells[1].row # cages[k].cells[3].row
    /\ cages[k].cells[1].col # cages[k].cells[3].col

\* C8: for 1 <= min <= max every cage is closed with between 1 and max cells, and
\* a cage closed with fewer cells than its drawn target size is trapped: every
\* in-bounds orthogonal neighbour of each of its cells is claimed by an earlier
\* cage or is in the cage.
C8_CageSizeWithinBoundsUnlessTrapped ==
  [][(1 <= cgMin /\ cgMin <= cgMax /\ Len(cages') = Len(cages) + 1) =>
       /\ cages'[Len(cages')].cells = cells
       /\ Len(cells) >= 1
       /\ Len(cells) <= cgMax
       /\ targetSize \in cgMin .. cgMax
       /\ Len(cells) < targetSize =>
            \A c \in Range(cells) :
              \A n \in AllCells(cgSize) :
                Manhattan(c, n) = 1 => (n \in visited \/ n \in Range(cells))]_vars

\* a cage closed with fewer cells than min (it was trapped)
C8_Witness ==
  /\ 1 <= cgMin /\ cgMin <= cgMax
  /\ \E k \in DOMAIN cages : Len(cages[k].cells) < cgMin


(***************************************************************************)
(* Clue deriver (engine/generator/ClueCalculator.ts).  The operations are  *)
(* written "+", "-", "*" (the code's multiplication sign), "/" (the code's *)
(* division sign) and "none".                                              *)
(***************************************************************************)

Operations == {"+", "-", "*", "/"}

Clue(t, op) == [target |-> t, operation |-> op]

\* values.reduce((a, b) => a + b, 0)
RECURSIVE SumSeq(_)
SumSeq(values) ==
  IF values = <<>> THEN 0 ELSE values[1] + SumSeq(Tail(values))

\* values.reduce((a, b) => a * b, 1)
RECURSIVE ProductSeq(_)
ProductSeq(values) ==
  IF values = <<>> THEN 1 ELSE values[1] * ProductSeq(Tail(values))

Max(a, b) == IF a >= b THEN a ELSE b

Min(a, b) == IF a <= b THEN a ELSE b

\* lines 12: cells.map(c => solution[c.row][c.col])
CellValues(cellSeq, grid) ==
  [k \in DOMAIN cellSeq |-> grid[cellSeq[k].row][cellSeq[k].col]]

\* lines 37-69: the candidate clues in the order they are pushed
TwoCellCandidates(a, b, operations) ==
  LET larger == Max(a, b)
      smaller == Min(a, b)
  IN (IF "+" \in operations
        THEN <<[clue |-> Clue(a + b, "+"), priority |-> 1]>> ELSE <<>>)
     \o (IF "-" \in operations /\ larger # smaller
        THEN <<[clue |-> Clue(larger - smaller, "-"), priority |-> 2]>> ELSE <<>>)
     \o (IF "*" \in operations
        THEN <<[clue |-> Clue(a * b, "*"), priority |-> 3]>> ELSE <<>>)
     \o (IF "/" \in operations /\ larger % smaller = 0
        THEN <<[clue |-> Clue(larger \div smaller, "/"), priority |-> 4]>> ELSE <<>>)

\* a two-cell clue that takes the candidate of lowest priority
calculateTwoCellClueLowestPriority(values, operations) ==
  LET a == values[1]
      b == values[2]
      possibleClues == TwoCellCandidates(a, b, operations)
  IN IF possibleClues = <<>> THEN Clue(a + b, "+")
     ELSE (CHOOSE c \in Range(possibleClues) :
             \A d \in Range(possibleClues) : d.priority >= c.priority).clue

\* lines 31-74: the candidate of highest priority (the first after the sort by
\* descending priority), or the sum when there is no candidate
calculateTwoCellClue(values, operations) ==
  LET a == values[1]
      b == values[2]
      possibleClues == TwoCellCandidates(a, b, operations)
  IN IF possibleClues = <<>> THEN Clue(a + b, "+")
     ELSE (CHOOSE c \in Range(possibleClues) :
             \A d \in Range(possibleClues) : d.priority <= c.priority).clue

\* a multi-cell clue that labels the fallback sum with the multiplication sign
calculateMultiCellClueWrongSign(values, operations) ==
  IF "+" \in operations THEN Clue(SumSeq(values), "+")
  ELSE IF "*" \in operations THEN Clue(ProductSeq(values), "*")
  ELSE Clue(SumSeq(values), "*")

\* a multi-cell clue that prefers the product to the sum
calculateMultiCellCluePrefersProduct(values, operations) ==
  IF "*" \in operations THEN Clue(ProductSeq(values), "*")
  ELSE Clue(SumSeq(values), "+")

\* lines 79-95
calculateMultiCellClue(values, operations) ==
  IF "+" \in operations THEN Clue(SumSeq(values), "+")
  ELSE IF "*" \in operations THEN Clue(ProductSeq(values), "*")
  ELSE Clue(SumSeq(values), "+")

\* a calculateClue without the single-cell case
calculateClueSingleAsSum(cellSeq, solution, operations) ==
  IF Len(cellSeq) = 2 THEN calculateTwoCellClue(CellValues(cellSeq, solution), operations)
  ELSE calculateMultiCellClue(CellValues(cellSeq, solution), operations)

\* lines 7-26
calculateClue(cellSeq, solution, operations) ==
  LET values == CellValues(cellSeq, solution)
  IN IF Len(cellSeq) = 1 THEN Clue(values[1], "none")
     ELSE IF Len(cellSeq) = 2 THEN calculateTwoCellClue(values, operations)
     ELSE calculateMultiCellClue(values, operations)

\* lines 124-150; larger / smaller === target is larger = target * smaller
validateClue(clue, values) ==
  IF Len(values) = 0 THEN FALSE
  ELSE CASE clue.operation = "none" -> Len(values) = 1 /\ values[1] = clue.target
         [] clue.operation = "+" -> SumSeq(values) = clue.target
         [] clue.operation = "-" ->
              IF Len(values) # 2 THEN FALSE
              ELSE Abs(values[1] - values[2]) = clue.target
         [] clue.operation = "*" -> ProductSeq(values) = clue.target
         [] clue.operation = "/" ->
              IF Len(values) # 2 THEN FALSE
              ELSE LET larger == Max(values[1], values[2])
                       smaller == Min(values[1], values[2])
                   IN smaller # 0 /\ larger = clue.target * smaller
         [] OTHER -> FALSE

\* lines 100-109: every cage gets the clue of its cells
assignClues(cs, solution, operations) ==
  [k \in DOMAIN cs |->
    [cs[k] EXCEPT !.clue = calculateClue(cs[k].cells, solution, operations)]]

\* the cells (0,0) .. (0,n-1) of a one-row grid
RowCells(n) == [k \in 1 .. n |-> Cell(0, k - 1)]

\* a cage of 1..ClueMaxCells cells over a grid of values in 1..ClueMaxValue, and
\* a set of allowed operations
ClueInit ==
  /\ \E n \in 1 .. ClueMaxCells :
       /\ clCells = RowCells(n)
       /\ clSolution \in [{0} -> [Idx(n) -> 1 .. ClueMaxValue]]
  /\ clOperations \in SUBSET Operations
  /\ clClue = <<>>
  /\ clValid = FALSE
  /\ clPhase = "start"
  /\ LatinIdle
  /\ CageIdle
  /\ SolverIdle
  /\ GenIdle
  /\ ValidatorIdle
  /\ RngIdle
  /\ GameIdle
  /\ SearchIdle
  /\ PairIdle

\* clue = calculateClue(cells, solution, operations)
CalculateClue ==
  /\ clPhase = "start"
  /\ clClue' = calculateClue(clCells, clSolution, clOperations)
  /\ clPhase' = "calculated"
  /\ UNCHANGED <<clCells, clSolution, clOperations, clValid>>
  /\ UNCHANGED <<latinVars, cageVars, solverVars, genVars, validatorVars, rngVars,
               gameVars, searchVars, pairVars>>

\* validateClue(clue, values of the cells)
ValidateClue ==
  /\ clPhase = "calculated"
  /\ clValid' = validateClue(clClue, CellValues(clCells, clSolution))
  /\ clPhase' = "validated"
  /\ UNCHANGED <<clCells, clSolution, clOperations, clClue>>
  /\ UNCHANGED <<latinVars, cageVars, solverVars, genVars, validatorVars, rngVars,
               gameVars, searchVars, pairVars>>

ClueNext == CalculateClue \/ ValidateClue

SpecClue == ClueInit /\ [][ClueNext]_vars

\* C6: clue round trip: for every cage of one or more cells, every tuple of
\* values in 1..N and every set of allowed operations, validateClue accepts the
\* clue calculateClue derives from the values, on those values.
C6_ClueRoundTrip == clPhase = "validated" => clValid

\* a three-cell cage whose allowed operations exclude both + and * was validated
C6_Witness ==
  /\ clPhase = "validated"
  /\ Len(clCells) = 3
  /\ clOperations = {"-", "/"}
  /\ clClue.operation = "+"
  /\ clValid

\* the values of the cage's cells
ClueValues == CellValues(clCells, clSolution)

\* calculateClue has returned
ClueCalculated == clPhase \in {"calculated", "validated"}

\* an operation is eligible for the two values a, b
Eligible(op, a, b) ==
  CASE op = "/" -> Max(a, b) % Min(a, b) = 0
    [] op = "-" -> a # b
    [] OTHER -> TRUE

\* the rank of an operation: division > multiplication > subtraction > addition
Rank(op) == CASE op = "/" -> 4 [] op = "*" -> 3 [] op = "-" -> 2 [] OTHER -> 1

\* the target an operation gives for the two values a, b
TargetOf(op, a, b) ==
  CASE op = "/" -> Max(a, b) \div Min(a, b)
    [] op = "*" -> a * b
    [] op = "-" -> Max(a, b) - Min(a, b)
    [] OTHER -> a + b

\* C16: for a two-cell cage with values a, b, calculateClue returns the clue of
\* the highest-ranked operation among those that are allowed and eligible
\* (division only when max is divisible by min, subtraction only when a # b,
\* addition and multiplication always); when no allowed operation is eligible
\* it returns addition with target a + b.
C16_TwoCellClueHighestPriorityEligible ==
  (ClueCalculated /\ Len(clCells) = 2) =>
    LET a == ClueValues[1]
        b == ClueValues[2]
        eligible == {op \in clOperations : Eligible(op, a, b)}
    IN IF eligible = {} THEN clClue = Clue(a + b, "+")
       ELSE /\ clClue.operation \in eligible
            /\ \A op \in eligible : Rank(op) <= Rank(clClue.operation)
            /\ clClue.target = TargetOf(clClue.operation, a, b)

\* two equal values with subtraction alone allowed: the clue is their sum
C16_Witness ==
  /\ ClueCalculated
  /\ Len(clCells) = 2
  /\ clOperations = {"-"}
  /\ ClueValues[1] = ClueValues[2]
  /\ clClue = Clue(2 * ClueValues[1], "+")

\* C18: for a cage of three or more cells, calculateClue returns "+" with the
\* sum of the values if "+" is allowed, otherwise the multiplication sign with
\* the product if multiplication is allowed, otherwise "+" with the sum; it
\* never returns "-", division or "none" for such a cage.
C18_MultiCellClueSumThenProduct ==
  (ClueCalculated /\ Len(clCells) >= 3) =>
    /\ clClue.operation \in {"+", "*"}
    /\ clClue.operation = "*" <=> ("+" \notin clOperations /\ "*" \in clOperations)
    /\ clClue.operation = "+" => clClue.target = SumSeq(ClueValues)
    /\ clClue.operation = "*" => clClue.target = ProductSeq(ClueValues)

\* three cells with both addition and multiplication allowed: the sum wins
\* although the product differs from it
C18_Witness ==
  /\ ClueCalculated
  /\ Len(clCells) = 3
  /\ {"+", "*"} \subseteq clOperations
  /\ clClue.operation = "+"
  /\ SumSeq(ClueValues) # ProductSeq(ClueValues)


(***************************************************************************)
(* Backtracking solver (engine/solver/BacktrackSolver.ts, lines 103-368 of *)
(* LatinSquare.ts in this source tree).                                    *)
(***************************************************************************)

\* lines 92-94: createEmptyGrid
createEmptyGrid(size) == [row \in Idx(size) |-> [col \in Idx(size) |-> 0]]

\* grid[row][col] = value
SetCell(grid, row, col, value) == [grid EXCEPT ![row][col] = value]

\* a placement check that forgets the column
isValidPlacementRowOnly(grid, row, col, value, size) ==
  \A c \in Idx(size) : ~(c # col /\ grid[row][c] = value)

\* lines 109-131
isValidPlacement(grid, row, col, value, size) ==
  /\ \A c \in Idx(size) : ~(c # col /\ grid[row][c] = value)
  /\ \A r \in Idx(size) : ~(r # row /\ grid[r][col] = value)

\* a partial check whose product bound is strict
isPartialCageValidStrictProduct(cage, values) ==
  CASE cage.clue.operation = "none" -> Len(values) = 0 \/ values[1] = cage.clue.target
    [] cage.clue.operation = "+" -> SumSeq(values) <= cage.clue.target
    [] cage.clue.operation = "*" -> ProductSeq(values) < cage.clue.target
    [] OTHER -> TRUE

\* a partial check that bounds the values of a subtraction cage by the target
isPartialCageValidBoundedDifference(cage, values) ==
  CASE cage.clue.operation = "none" -> Len(values) = 0 \/ values[1] = cage.clue.target
    [] cage.clue.operation = "+" -> SumSeq(values) <= cage.clue.target
    [] cage.clue.operation = "-" -> SumSeq(values) <= cage.clue.target
    [] cage.clue.operation = "*" -> ProductSeq(values) <= cage.clue.target
    [] cage.clue.operation = "/" -> TRUE
    [] OTHER -> TRUE

\* lines 165-192
isPartialCageValid(cage, values) ==
  CASE cage.clue.operation = "none" -> Len(values) = 0 \/ values[1] = cage.clue.target
    [] cage.clue.operation = "+" -> SumSeq(values) <= cage.clue.target
    [] cage.clue.operation = "-" -> TRUE
    [] cage.clue.operation = "*" -> ProductSeq(values) <= cage.clue.target
    [] cage.clue.operation = "/" -> TRUE
    [] OTHER -> TRUE

\* lines 197-223; larger / smaller === target is larger = target * smaller
isFullCageValid(cage, values) ==
  CASE cage.clue.operation = "none" -> Len(values) = 1 /\ values[1] = cage.clue.target
    [] cage.clue.operation = "+" -> SumSeq(values) = cage.clue.target
    [] cage.clue.operation = "-" ->
         IF Len(values) # 2 THEN FALSE
         ELSE Abs(values[1] - values[2]) = cage.clue.target
    [] cage.clue.operation = "*" -> ProductSeq(values) = cage.clue.target
    [] cage.clue.operation = "/" ->
         IF Len(values) # 2 THEN FALSE
         ELSE LET larger == Max(values[1], values[2])
                  smaller == Min(values[1], values[2])
              IN smaller # 0 /\ larger = cage.clue.target * smaller
    [] OTHER -> FALSE

\* lines 141-151: the non-zero values of the cage's cells, in cell order
FilledValues(cage, grid) ==
  SelectSeq(CellValues(cage.cells, grid), LAMBDA v : v # 0)

\* lines 136-160
isCageSatisfied(cage, grid, allowPartial) ==
  LET values == FilledValues(cage, grid)
      hasEmpty == \E k \in DOMAIN cage.cells : grid[cage.cells[k].row][cage.cells[k].col] = 0
  IN IF hasEmpty
       THEN (IF allowPartial THEN isPartialCageValid(cage, values) ELSE TRUE)
       ELSE isFullCageValid(cage, values)

\* lines 228-237: the index of the first cage that lists the cell; 0 stands for null
getCageForCell(cs, row, col) ==
  IF \E k \in DOMAIN cs : Cell(row, col) \in Range(cs[k].cells)
    THEN CHOOSE k \in DOMAIN cs :
           /\ Cell(row, col) \in Range(cs[k].cells)
           /\ \A m \in 1 .. (k - 1) : Cell(row, col) \notin Range(cs[m].cells)
    ELSE 0

\* line 273-274: cage && isCageSatisfied(cage, grid, true)
CageAllowsSolve(puzzle, grid, row, col) ==
  LET k == getCageForCell(puzzle.cages, row, col)
  IN k # 0 /\ isCageSatisfied(puzzle.cages[k], grid, TRUE)

\* lines 309-310: !cage || isCageSatisfied(cage, grid, true)
CageAllowsCount(puzzle, grid, row, col) ==
  LET k == getCageForCell(puzzle.cages, row, col)
  IN k = 0 \/ isCageSatisfied(puzzle.cages[k], grid, TRUE)

\* lines 256-285: backtrack(puzzle, grid, cellIndex), its value loop entered at
\* `value`; the result is the return value and the grid as the call leaves it
RECURSIVE backtrack(_, _, _, _)
backtrack(puzzle, grid, cellIndex, value) ==
  LET row == cellIndex \div puzzle.size
      col == cellIndex % puzzle.size
  IN IF cellIndex >= puzzle.size * puzzle.size THEN [ok |-> TRUE, grid |-> grid]
     ELSE IF value > puzzle.size THEN [ok |-> FALSE, grid |-> grid]
     ELSE IF ~isValidPlacement(grid, row, col, value, puzzle.size)
       THEN backtrack(puzzle, grid, cellIndex, value + 1)
     ELSE LET placed == SetCell(grid, row, col, value)
          IN IF ~CageAllowsSolve(puzzle, placed, row, col)
               THEN backtrack(puzzle, SetCell(placed, row, col, 0), cellIndex, value + 1)
               ELSE LET r == backtrack(puzzle, placed, cellIndex + 1, 1)
                    IN IF r.ok THEN r
                       ELSE backtrack(puzzle, SetCell(r.grid, row, col, 0), cellIndex, value + 1)

\* lines 243-251: the solution grid, or <<>> for null
solvePuzzle(puzzle) ==
  LET r == backtrack(puzzle, createEmptyGrid(puzzle.size), 0, 1)
  IN IF r.ok THEN r.grid ELSE <<>>

\* lines 294-322: countSolutions(cellIndex), its value loop entered at `value`,
\* with the solutionCount and the grid it shares with its caller
RECURSIVE countSolutions(_, _, _, _, _)
countSolutions(puzzle, grid, solutionCount, cellIndex, value) ==
  LET row == cellIndex \div puzzle.size
      col == cellIndex % puzzle.size
  IN IF cellIndex >= puzzle.size * puzzle.size
       THEN [stop |-> solutionCount + 1 >= 2, solutionCount |-> solutionCount + 1, grid |-> grid]
     ELSE IF value > puzzle.size
       THEN [stop |-> FALSE, solutionCount |-> solutionCount, grid |-> grid]
     ELSE IF ~isValidPlacement(grid, row, col, value, puzzle.size)
       THEN countSolutions(puzzle, grid, solutionCount, cellIndex, value + 1)
     ELSE LET placed == SetCell(grid, row, col, value)
          IN IF ~CageAllowsCount(puzzle, placed, row, col)
               THEN countSolutions(puzzle, SetCell(placed, row, col, 0), solutionCount,
                                   cellIndex, value + 1)
               ELSE LET r == countSolutions(puzzle, placed, solutionCount, cellIndex + 1, 1)
                    IN IF r.stop
                         THEN [r EXCEPT !.grid = SetCell(r.grid, row, col, 0)]
                         ELSE countSolutions(puzzle, SetCell(r.grid, row, col, 0),
                                             r.solutionCount, cellIndex, value + 1)

\* a check that is content with a count of at least one
UniqueByCountAtLeastOne(puzzle) ==
  countSolutions(puzzle, createEmptyGrid(puzzle.size), 0, 0, 1).solutionCount >= 1

\* lines 327-328: countSolutions(0); resolve(solutionCount === 1)
UniqueByCount(puzzle) ==
  countSolutions(puzzle, createEmptyGrid(puzzle.size), 0, 0, 1).solutionCount = 1


\* the permutations of 1..n, as rows of a grid
Perms(n) == {p \in [Idx(n) -> 1 .. n] : \A i, j \in Idx(n) : i # j => p[i] # p[j]}

\* every Latin square over 1..n
LatinGrids == [n \in SolverSizes |->
  {g \in [Idx(n) -> Perms(n)] :
     \A col \in Idx(n) : \A i, j \in Idx(n) : i # j => g[i][col] # g[j][col]}]

\* the cages (placeholder clues) of a layout given by row-major cell indices
LayoutCages(size, layout) ==
  [k \in DOMAIN layout |->
    NewCage(k - 1, [i \in DOMAIN layout[k] |-> CellAt(size, layout[k][i])])]

\* cage layouts: the 2 x 2 layouts of the solver tests (two row cages, single
\* cells), an L with a single cell and one cage for the whole grid; 3 x 3 layouts
\* of dominoes, rows, an L, a cage listed against the row-major order and a cage
\* of two cells that do not touch
Layouts == [n \in SolverSizes |->
  IF n = 2
    THEN { << <<0, 1>>, <<2, 3>> >>,
           << <<0>>, <<1>>, <<2>>, <<3>> >>,
           << <<0, 1, 3>>, <<2>> >>,
           << <<0, 2, 3, 1>> >> }
    ELSE { << <<0, 1>>, <<2, 5>>, <<3, 6>>, <<4>>, <<7, 8>> >>,
           << <<0, 1, 2>>, <<3, 4, 5>>, <<6, 7, 8>> >>,
           << <<0, 3, 4>>, <<2, 1>>, <<8, 5>>, <<6, 7>> >>,
           << <<0, 8>>, <<1, 2, 5, 4>>, <<3, 6, 7>> >> }]

\* sets of allowed operations: those of the difficulty presets and two others
SolverOperationSets ==
  {{"+"}, {"+", "-"}, {"+", "-", "*"}, Operations, {"-", "/"}, {"*"}}

\* the sequence without its k-th element
RemoveAt(seq, k) == SubSeq(seq, 1, k - 1) \o SubSeq(seq, k + 1, Len(seq))

\* puzzles whose clues are derived from a Latin square
DerivedPuzzles ==
  UNION {
    {[size |-> n, cages |-> assignClues(LayoutCages(n, layout), solution, operations)] :
       layout \in Layouts[n], solution \in LatinGrids[n], operations \in SolverOperationSets}
    : n \in SolverSizes}

\* the puzzles derived, with addition only, from the Latin squares that start with 1
AdditionPuzzles ==
  UNION {
    {[size |-> n, cages |-> assignClues(LayoutCages(n, layout), solution, {"+"})] :
       layout \in Layouts[n], solution \in {g \in LatinGrids[n] : g[0][0] = 1}}
    : n \in SolverSizes}

\* an addition puzzle with the clue of one cage replaced by an arbitrary clue
PerturbedPuzzles ==
  UNION {
    {[p EXCEPT !.cages[k].clue = Clue(t, op)] :
       k \in DOMAIN p.cages, t \in 0 .. SolverMaxTarget, op \in Operations \cup {"none"}}
    : p \in AdditionPuzzles}

\* an addition puzzle with one cage removed: its cells belong to no cage
UncoveredPuzzles ==
  UNION {{[p EXCEPT !.cages = RemoveAt(p.cages, k)] : k \in DOMAIN p.cages} : p \in AdditionPuzzles}

\* the values the grid holds at the cage's cells
CageValues(cage, grid) == CellValues(cage.cells, grid)

\* the completions of a puzzle: the full grids that are Latin squares over
\* 1..size and pass the exact check of every cage
Completions(puzzle) ==
  {g \in LatinGrids[puzzle.size] :
     \A k \in DOMAIN puzzle.cages : isFullCageValid(puzzle.cages[k], CageValues(puzzle.cages[k], g))}

SolverInit ==
  /\ svPuzzle \in DerivedPuzzles \cup PerturbedPuzzles \cup UncoveredPuzzles
  /\ svSolved = [returned |-> FALSE, grid |-> <<>>]
  /\ svTimer = "none"
  /\ svUnique = [resolved |-> FALSE, value |-> FALSE]
  /\ LatinIdle
  /\ CageIdle
  /\ ClueIdle
  /\ GenIdle
  /\ ValidatorIdle
  /\ RngIdle
  /\ GameIdle
  /\ SearchIdle
  /\ PairIdle

\* lines 243-251: solvePuzzle(puzzle) returns the grid or null
CallSolvePuzzle ==
  /\ ~svSolved.returned
  /\ svTimer = "none"
  /\ svSolved' = [returned |-> TRUE, grid |-> solvePuzzle(svPuzzle)]
  /\ UNCHANGED <<svPuzzle, svTimer, svUnique>>
  /\ UNCHANGED <<latinVars, cageVars, clueVars, genVars, validatorVars, rngVars,
               gameVars, searchVars, pairVars>>

\* lines 290-292, 325-326 and 329-330: hasUniqueSolution(puzzle) returns a
\* pending promise and sets a timer
CallHasUniqueSolution ==
  /\ svSolved.returned
  /\ svTimer = "none"
  /\ svTimer' = "set"
  /\ UNCHANGED <<svPuzzle, svSolved, svUnique>>
  /\ UNCHANGED <<latinVars, cageVars, clueVars, genVars, validatorVars, rngVars,
               gameVars, searchVars, pairVars>>

\* lines 326-329: the timer fires: countSolutions(0); resolve(solutionCount === 1)
CountTimerFires ==
  /\ svTimer = "set"
  /\ svTimer' = "fired"
  /\ svUnique' = [resolved |-> TRUE, value |-> UniqueByCount(svPuzzle)]
  /\ UNCHANGED <<svPuzzle, svSolved>>
  /\ UNCHANGED <<latinVars, cageVars, clueVars, genVars, validatorVars, rngVars,
               gameVars, searchVars, pairVars>>

SolverNext == CallSolvePuzzle \/ CallHasUniqueSolution \/ CountTimerFires

SpecSolver == SolverInit /\ [][SolverNext]_vars

\* C3: hasUniqueSolution resolves to true exactly when the puzzle has exactly one
\* completion (a Latin square over 1..N that passes every cage's exact check),
\* and to false both with no completion and with two or more; for every puzzle
\* whose cages are non-empty and pairwise disjoint.
C3_UniqueIffOneCompletion ==
  svUnique.resolved =>
    (svUnique.value <=> Cardinality(Completions(svPuzzle)) = 1)

\* hasUniqueSolution has resolved to false for a 3 x 3 puzzle without completion
C3_Witness ==
  /\ svUnique.resolved
  /\ svPuzzle.size = 3
  /\ ~svUnique.value
  /\ Completions(svPuzzle) = {}

\* the cages list every cell of the grid exactly once
CoversEveryCell(puzzle) == validateCageCoverage(puzzle.cages, puzzle.size)

\* C10: for every puzzle whose cages cover every cell, solvePuzzle returns a grid
\* exactly when a completion exists, the grid it returns is a completion (full,
\* a Latin square over 1..N, passing every cage's exact check), and it returns
\* null when there is none.
C10_SolveReturnsCompletionOrNull ==
  (svSolved.returned /\ CoversEveryCell(svPuzzle)) =>
    /\ svSolved.grid # <<>> <=> Completions(svPuzzle) # {}
    /\ svSolved.grid # <<>> => svSolved.grid \in Completions(svPuzzle)

\* solvePuzzle has returned null for a puzzle whose cages cover every cell
C10_Witness ==
  /\ svSolved.returned
  /\ CoversEveryCell(svPuzzle)
  /\ svPuzzle.size = 3
  /\ svSolved.grid = <<>>

\* the grid with the cells after the k-th (row-major, from 0) emptied
Prefix(grid, size, k) ==
  [row \in Idx(size) |-> [col \in Idx(size) |->
     IF row * size + col <= k THEN grid[row][col] ELSE 0]]

\* the solutions the counting search accepts: the Latin squares every cell of
\* which passes the cage check of countSolutions when it is placed
CountedGrids(puzzle) ==
  {g \in LatinGrids[puzzle.size] :
     \A k \in 0 .. (puzzle.size * puzzle.size - 1) :
       CageAllowsCount(puzzle, Prefix(g, puzzle.size, k), k \div puzzle.size, k % puzzle.size)}

\* the grid read as a number, first cell first: the order in which a search
\* over ascending values reaches the grids
RECURSIVE ReadingOrder(_, _, _)
ReadingOrder(grid, size, k) ==
  IF k < 0 THEN 0
  ELSE ReadingOrder(grid, size, k - 1) * (size + 1) + grid[k \div size][k % size]

\* the number of solutions the counting search of hasUniqueSolution finds
\* before it stops
CountFound(puzzle) ==
  countSolutions(puzzle, createEmptyGrid(puzzle.size), 0, 0, 1).solutionCount

\* C20: solvePuzzle and hasUniqueSolution run the same search: for every
\* puzzle, one with a cell that belongs to no cage included, solvePuzzle
\* returns a grid exactly when the counting search finds at least one solution,
\* and the grid it returns is the first solution the counting search reaches.
C20_SolveAgreesWithCountingSearch ==
  svSolved.returned =>
    /\ svSolved.grid # <<>> <=> CountFound(svPuzzle) >= 1
    /\ svSolved.grid # <<>> =>
         /\ svSolved.grid \in CountedGrids(svPuzzle)
         /\ \A g \in CountedGrids(svPuzzle) :
              ReadingOrder(svSolved.grid, svPuzzle.size, svPuzzle.size * svPuzzle.size - 1)
                <= ReadingOrder(g, svPuzzle.size, svPuzzle.size * svPuzzle.size - 1)


(***************************************************************************)
(* The generators run on a SeededRNG: each takes the seed field and        *)
(* returns its result with the seed field as the draws have left it.       *)
(***************************************************************************)

\* LatinSquare.ts line 24 for the drawn j, and the step of the loop
RowsSwapped(st, j) ==
  [square |-> SwapRows(st.square, st.i, j.value), seed |-> j.seed, i |-> st.i - 1]

\* LatinSquare.ts lines 22-25: the loop over i, from the state st of its
\* variables (the square, the seed of the generator and i)
RECURSIVE ShuffleRowsLoop(_)
ShuffleRowsLoop(st) ==
  IF ~(st.i > 0) THEN st
  ELSE ShuffleRowsLoop(RowsSwapped(st, nextInt(st.seed, 0, st.i)))

\* LatinSquare.ts lines 30-32 for the drawn j, and the step of the loop
ColsSwapped(st, j) ==
  [square |-> SwapCols(st.square, st.i, j.value), seed |-> j.seed, i |-> st.i - 1]

\* LatinSquare.ts lines 28-33
RECURSIVE ShuffleColsLoop(_)
ShuffleColsLoop(st) ==
  IF ~(st.i > 0) THEN st
  ELSE ShuffleColsLoop(ColsSwapped(st, nextInt(st.seed, 0, st.i)))

\* LatinSquare.ts lines 40-50 for the drawn a and b, and the step of the loop
Remapped(st, a, b) ==
  [square |-> RemapValues(st.square, a.value, b.value), seed |-> b.seed,
   swap |-> st.swap + 1]

\* LatinSquare.ts line 39 after the draw of a
RemapWith(st, a, size) == Remapped(st, a, nextInt(a.seed, 1, size))

\* LatinSquare.ts lines 37-51: the loop over swap
RECURSIVE RemapLoop(_, _, _)
RemapLoop(st, size, count) ==
  IF ~(st.swap < count) THEN st
  ELSE RemapLoop(RemapWith(st, nextInt(st.seed, 1, size), size), size, count)

\* LatinSquare.ts lines 36-51 for the drawn numSwaps
RemapAll(st, size, drawn) ==
  RemapLoop([square |-> st.square, seed |-> drawn.seed, swap |-> 0], size, drawn.value)

\* LatinSquare.ts lines 36-51 after the shuffles
RemapPhase(st, size) == RemapAll(st, size, nextInt(st.seed, 5, 15))

\* LatinSquare.ts lines 28-51 after the row shuffle
ColsPhase(st, size) ==
  RemapPhase(ShuffleColsLoop([square |-> st.square, seed |-> st.seed, i |-> size - 1]),
             size)

\* LatinSquare.ts lines 7-54: the square, with the seed as the draws have left it
generateLatinSquare(size, seed) ==
  ColsPhase(ShuffleRowsLoop([square |-> BasePattern(size), seed |-> seed, i |-> size - 1]),
            size)

\* CageGenerator.ts lines 82-85 for the picked neighbour
GrowWith(cageCells, n) == [cells |-> Append(cageCells, n.value), seed |-> n.seed]

\* CageGenerator.ts lines 77-89: the loop, from the cells and the seed in g
RECURSIVE GrowLoop(_, _, _, _)
GrowLoop(g, target, size, vis) ==
  IF Len(g.cells) >= target THEN g
  ELSE IF getUnvisitedNeighbors(g.cells, size, vis) = <<>> THEN g
  ELSE GrowLoop(GrowWith(g.cells, pick(g.seed, getUnvisitedNeighbors(g.cells, size, vis))),
                target, size, vis)

\* CageGenerator.ts lines 69-89 for the drawn target size
GrowTo(startRow, startCol, size, vis, target) ==
  GrowLoop([cells |-> <<Cell(startRow, startCol)>>, seed |-> target.seed],
           target.value, size, vis)

\* CageGenerator.ts lines 60-90
growCage(startRow, startCol, size, vis, seed, minSize, maxSize) ==
  GrowTo(startRow, startCol, size, vis, nextInt(seed, minSize, maxSize))

\* CageGenerator.ts lines 36-49 for the grown cage g
CageAdded(st, g) ==
  [cages |-> Append(st.cages, NewCage(Len(st.cages), g.cells)),
   visited |-> MarkVisited(st.visited, g.cells),
   seed |-> g.seed, row |-> st.row, col |-> st.col + 1]

\* CageGenerator.ts lines 31-51: the loop over col, from the state st of the
\* cages, the visited cells, the seed, row and col
RECURSIVE CageColLoop(_, _, _, _)
CageColLoop(st, size, minSize, maxSize) ==
  IF ~(st.col < size) THEN st
  ELSE IF Cell(st.row, st.col) \in st.visited
    THEN CageColLoop([st EXCEPT !.col = st.col + 1], size, minSize, maxSize)
  ELSE CageColLoop(
         CageAdded(st, growCage(st.row, st.col, size, st.visited, st.seed,
                                minSize, maxSize)),
         size, minSize, maxSize)

\* CageGenerator.ts line 30: row++ after the loop over col
NextRow(st) == [st EXCEPT !.row = st.row + 1]

\* CageGenerator.ts lines 30-52: the loop over row
RECURSIVE CageRowLoop(_, _, _, _)
CageRowLoop(st, size, minSize, maxSize) ==
  IF ~(st.row < size) THEN st
  ELSE CageRowLoop(NextRow(CageColLoop([st EXCEPT !.col = 0], size, minSize, maxSize)),
                   size, minSize, maxSize)

\* CageGenerator.ts lines 19-55: the cages, with the seed as the draws have left
\* it; allowSingleCell is read from the config and not used
generateCages(size, seed, config) ==
  CageRowLoop([cages |-> <<>>, visited |-> {}, seed |-> seed, row |-> 0, col |-> 0],
              size, config.minSize, config.maxSize)

(***************************************************************************)
(* Difficulty presets (engine/difficulty/presets.ts); singleCellRate is in *)
(* hundredths.                                                             *)
(***************************************************************************)

Difficulties == {"beginner", "easy", "medium", "hard", "expert"}

Preset(g, ops, min, max, rate) ==
  [gridSize |-> g, operations |-> ops, minCageSize |-> min, maxCageSize |-> max,
   singleCellRate |-> rate]

\* lines 12-53
DIFFICULTY_PRESETS ==
  [d \in Difficulties |->
    CASE d = "beginner" -> Preset(4, {"+"}, 1, 2, 30)
      [] d = "easy" -> Preset(5, {"+", "-"}, 1, 3, 20)
      [] d = "medium" -> Preset(6, {"+", "-", "*"}, 1, 4, 10)
      [] d = "hard" -> Preset(7, {"+", "-", "*", "/"}, 2, 5, 5)
      [] d = "expert" -> Preset(9, {"+", "-", "*", "/"}, 2, 6, 0)]

\* lines 58-60
getDifficultyPreset(difficulty) == DIFFICULTY_PRESETS[difficulty]

(***************************************************************************)
(* Puzzle assembler and retry loop (engine/generator/PuzzleGenerator.ts).  *)
(***************************************************************************)

\* the decimal digits of n >= 0, as character codes
RECURSIVE DecimalString(_)
DecimalString(n) ==
  IF n < 10 THEN <<48 + n>> ELSE Append(DecimalString(n \div 10), 48 + (n % 10))

\* a seed expression that always takes the time
SeedIgnored(config, now) == DecimalString(now)

\* line 14: seed ?? Date.now().toString()
SeedOrNow(config, now) == IF config.hasSeed THEN config.seed ELSE DecimalString(now)

\* line 125 for the drawn random
IdWith(difficulty, size, now, random) ==
  [id |-> [difficulty |-> difficulty, size |-> size, timestamp |-> now,
           random |-> random.value],
   seed |-> random.seed]

\* lines 122-126: `${difficulty}-${size}x${size}-${timestamp}-${random}`
generatePuzzleId(difficulty, size, seed, now) ==
  IdWith(difficulty, size, now, nextInt(seed, 1000, 9999))

\* lines 36-46 for the generated id
PuzzleWith(config, solution, cs, puzzleId) ==
  [puzzle |-> [id |-> puzzleId.id, size |-> config.size,
               difficulty |-> config.difficulty, cages |-> cs,
               solution |-> solution, seed |-> config.seed, hasSeed |-> config.hasSeed],
   seed |-> puzzleId.seed]

\* lines 29-46 for the generated cages
CluedPuzzle(config, preset, solution, cs, now) ==
  PuzzleWith(config, solution, assignClues(cs.cages, solution, preset.operations),
             generatePuzzleId(config.difficulty, config.size, cs.seed, now))

\* lines 26-46 for the generated solution
CagedPuzzle(config, preset, solution, now) ==
  CluedPuzzle(config, preset, solution.square,
              generateCages(config.size, solution.seed,
                            [minSize |-> preset.minCageSize,
                             maxSize |-> preset.maxCageSize,
                             allowSingleCell |-> preset.singleCellRate > 0]),
              now)

\* lines 23-46 and 71-87: solution, cages, clues, id and the puzzle made of them
BuildPuzzle(config, seed, now) ==
  CagedPuzzle(config, getDifficultyPreset(config.difficulty),
              generateLatinSquare(config.size, seed), now)

\* line 18
maxAttempts == 10

\* line 49: the largest size whose uniqueness is verified
VerifyMaxSize == 7

\* the strings of 1..n characters
RECURSIVE SeedStrings(_)
SeedStrings(n) ==
  IF n = 0 THEN {}
  ELSE SeedStrings(n - 1) \cup [1 .. n -> SeedChars]

\* the configs of the calls: a seed string or none
Configs ==
  {[size |-> n, difficulty |-> d, hasSeed |-> TRUE, seed |-> str] :
     n \in GenSizes, d \in Difficulties, str \in SeedStrings(GenMaxSeedLen)}
  \cup {[size |-> n, difficulty |-> d, hasSeed |-> FALSE, seed |-> <<>>] :
     n \in GenSizes, d \in Difficulties}

\* the value of a puzzle variable that holds no puzzle
NoPuzzle == [size |-> 0, cages |-> <<>>]

\* the promise of a generatePuzzle call and what its caller has done with it
Outcome(promise, puzzle, caller) == [promise |-> promise, puzzle |-> puzzle, caller |-> caller]

Init ==
  /\ clock = 0
  /\ gnConfig \in Configs
  /\ gnPc = "start"
  /\ gnRng = Word(0, 0)
  /\ attempts = 0
  /\ gnPuzzle = NoPuzzle
  /\ gnTimer = "none"
  /\ hasUnique = FALSE
  /\ gnOutcome = Outcome("pending", NoPuzzle, "waiting")
  /\ gnHistory = <<>>
  /\ LatinIdle
  /\ CageIdle
  /\ ClueIdle
  /\ SolverIdle
  /\ ValidatorIdle
  /\ RngIdle
  /\ GameIdle
  /\ SearchIdle
  /\ PairIdle

\* a millisecond passes before a call or while generatePuzzle awaits
Tick ==
  /\ clock < MaxClock
  /\ gnPc \in {"start", "await", "sync"}
  /\ clock' = clock + 1
  /\ UNCHANGED <<gnConfig, gnPc, gnRng, attempts, gnPuzzle, gnTimer, hasUnique,
                 gnOutcome, gnHistory>>
  /\ UNCHANGED <<latinVars, cageVars, clueVars, solverVars, validatorVars, rngVars,
               gameVars, searchVars, pairVars>>

\* lines 12-18: the call creates its SeededRNG and sets attempts to 0
CallGeneratePuzzle ==
  /\ gnPc = "start"
  /\ gnRng' = createRNG(SeedOrNow(gnConfig, clock))
  /\ attempts' = 0
  /\ gnPc' = "loop"
  /\ UNCHANGED <<clock, gnConfig, gnPuzzle, gnTimer, hasUnique, gnOutcome, gnHistory>>
  /\ UNCHANGED <<latinVars, cageVars, clueVars, solverVars, validatorVars, rngVars,
               gameVars, searchVars, pairVars>>

\* a pass of the loop that returns its candidate without the check, whatever the size
AttemptWithoutCheck ==
  /\ gnPc = "loop"
  /\ attempts < maxAttempts
  /\ attempts' = attempts + 1
  /\ \E built \in {BuildPuzzle(gnConfig, gnRng, clock)} :
        /\ gnPuzzle' = built.puzzle
        /\ gnRng' = built.seed
        /\ gnHistory' = Append(gnHistory, [puzzle |-> built.puzzle, checked |-> FALSE,
                                           unique |-> FALSE, left |-> built.seed])
        /\ gnTimer' = gnTimer
        /\ gnPc' = "done"
        /\ gnOutcome' = Outcome("fulfilled", built.puzzle, "waiting")
  /\ UNCHANGED <<clock, gnConfig, hasUnique>>
  /\ UNCHANGED <<latinVars, cageVars, clueVars, solverVars, validatorVars, rngVars,
               gameVars, searchVars, pairVars>>

\* a pass of the loop that creates the generator anew from the seed
AttemptFromFreshRng ==
  /\ gnPc = "loop"
  /\ attempts < maxAttempts
  /\ attempts' = attempts + 1
  /\ \E built \in {BuildPuzzle(gnConfig, createRNG(SeedOrNow(gnConfig, clock)), clock)} :
        /\ gnPuzzle' = built.puzzle
        /\ gnRng' = built.seed
        /\ gnHistory' = Append(gnHistory, [puzzle |-> built.puzzle, checked |-> FALSE,
                                           unique |-> FALSE, left |-> built.seed])
        /\ IF gnConfig.size <= VerifyMaxSize
             THEN /\ gnTimer' = "set"
                  /\ gnPc' = "await"
                  /\ gnOutcome' = gnOutcome
             ELSE /\ gnTimer' = gnTimer
                  /\ gnPc' = "done"
                  /\ gnOutcome' = Outcome("fulfilled", built.puzzle, "waiting")
  /\ UNCHANGED <<clock, gnConfig, hasUnique>>
  /\ UNCHANGED <<latinVars, cageVars, clueVars, solverVars, validatorVars, rngVars,
               gameVars, searchVars, pairVars>>

\* lines 20-50 and 57: one pass of the loop up to the await of hasUniqueSolution
\* (which sets its timer), or up to the return for a size above the threshold;
\* the candidate is recorded with the seed field as its draws have left it
Attempt ==
  /\ gnPc = "loop"
  /\ attempts < maxAttempts
  /\ attempts' = attempts + 1
  /\ \E built \in {BuildPuzzle(gnConfig, gnRng, clock)} :
        /\ gnPuzzle' = built.puzzle
        /\ gnRng' = built.seed
        /\ gnHistory' = Append(gnHistory, [puzzle |-> built.puzzle, checked |-> FALSE,
                                           unique |-> FALSE, left |-> built.seed])
        /\ IF gnConfig.size <= VerifyMaxSize
             THEN /\ gnTimer' = "set"
                  /\ gnPc' = "await"
                  /\ gnOutcome' = gnOutcome
             ELSE /\ gnTimer' = gnTimer
                  /\ gnPc' = "done"
                  /\ gnOutcome' = Outcome("fulfilled", built.puzzle, "waiting")
  /\ UNCHANGED <<clock, gnConfig, hasUnique>>
  /\ UNCHANGED <<latinVars, cageVars, clueVars, solverVars, validatorVars, rngVars,
               gameVars, searchVars, pairVars>>

\* LatinSquare.ts lines 326-329: the timer fires, the count runs and the promise
\* of hasUniqueSolution resolves
GenTimerFires ==
  /\ gnPc = "await"
  /\ gnTimer = "set"
  /\ gnTimer' = "fired"
  /\ hasUnique' = UniqueByCount(gnPuzzle)
  /\ gnHistory' = [gnHistory EXCEPT ![Len(gnHistory)] =
                     [@ EXCEPT !.checked = TRUE, !.unique = hasUnique']]
  /\ gnPc' = "resume"
  /\ UNCHANGED <<clock, gnConfig, gnRng, attempts, gnPuzzle, gnOutcome>>
  /\ UNCHANGED <<latinVars, cageVars, clueVars, solverVars, validatorVars, rngVars,
               gameVars, searchVars, pairVars>>

\* a resumption that returns the puzzle whatever the check has said
ResumeReturnsAnyway ==
  /\ gnPc = "resume"
  /\ gnPc' = "done"
  /\ gnOutcome' = Outcome("fulfilled", gnPuzzle, "waiting")
  /\ UNCHANGED <<clock, gnConfig, gnRng, attempts, gnPuzzle, gnTimer, hasUnique, gnHistory>>
  /\ UNCHANGED <<latinVars, cageVars, clueVars, solverVars, validatorVars, rngVars,
               gameVars, searchVars, pairVars>>

\* lines 50-57: generatePuzzle resumes after the await: continue, or return puzzle
Resume ==
  /\ gnPc = "resume"
  /\ IF ~hasUnique
       THEN gnPc' = "loop" /\ gnOutcome' = gnOutcome
       ELSE gnPc' = "done" /\ gnOutcome' = Outcome("fulfilled", gnPuzzle, "waiting")
  /\ UNCHANGED <<clock, gnConfig, gnRng, attempts, gnPuzzle, gnTimer, hasUnique, gnHistory>>
  /\ UNCHANGED <<latinVars, cageVars, clueVars, solverVars, validatorVars, rngVars,
               gameVars, searchVars, pairVars>>

\* line 60: the loop has ended: throw new Error(...)
ThrowExhausted ==
  /\ gnPc = "loop"
  /\ ~(attempts < maxAttempts)
  /\ gnPc' = "done"
  /\ gnOutcome' = Outcome("rejected", NoPuzzle, "waiting")
  /\ UNCHANGED <<clock, gnConfig, gnRng, attempts, gnPuzzle, gnTimer, hasUnique, gnHistory>>
  /\ UNCHANGED <<latinVars, cageVars, clueVars, solverVars, validatorVars, rngVars,
               gameVars, searchVars, pairVars>>

\* Game.ts lines 93-104: the caller catches the error, alerts and returns, or
\* loads the puzzle
CallerSettles ==
  /\ gnOutcome.promise \in {"fulfilled", "rejected"}
  /\ gnOutcome.caller = "waiting"
  /\ gnOutcome' = [gnOutcome EXCEPT !.caller =
                     IF gnOutcome.promise = "rejected" THEN "alerted" ELSE "loaded"]
  /\ UNCHANGED <<clock, gnConfig, gnPc, gnRng, attempts, gnPuzzle, gnTimer, hasUnique,
                 gnHistory>>
  /\ UNCHANGED <<latinVars, cageVars, clueVars, solverVars, validatorVars, rngVars,
               gameVars, searchVars, pairVars>>

Next ==
  \/ Tick
  \/ CallGeneratePuzzle
  \/ Attempt
  \/ GenTimerFires
  \/ Resume
  \/ ThrowExhausted
  \/ CallerSettles

Spec == Init /\ [][Next]_vars

\* the call is one whose size is verified
Verified == gnConfig.size <= VerifyMaxSize

\* the attempts before the n-th were all checked and found not unique
AllFailedBefore(n) ==
  \A k \in 1 .. (n - 1) : gnHistory[k].checked /\ ~gnHistory[k].unique

\* C9: a generatePuzzle call of a size up to 7 makes at most 10 attempts; a puzzle
\* it returns is the candidate of the first attempt whose uniqueness check was
\* true; it throws only after 10 attempts that all failed the check, and then
\* there is no 11th attempt and no returned puzzle (the caller alerts, and loads
\* nothing).
C9_AtMostTenAttemptsFirstUniqueReturned ==
  Verified =>
    /\ attempts <= maxAttempts
    /\ Len(gnHistory) = attempts
    /\ gnOutcome.promise = "fulfilled" =>
         /\ attempts >= 1
         /\ gnHistory[attempts].checked /\ gnHistory[attempts].unique
         /\ gnOutcome.puzzle = gnHistory[attempts].puzzle
         /\ AllFailedBefore(attempts)
    /\ gnOutcome.promise = "rejected" =>
         /\ attempts = maxAttempts
         /\ AllFailedBefore(maxAttempts + 1)
         /\ gnOutcome.puzzle = NoPuzzle
         /\ gnOutcome.caller # "loaded"

\* a call has thrown after ten failed attempts and the caller has alerted
C9_Witness ==
  /\ Verified
  /\ gnOutcome.promise = "rejected"
  /\ gnOutcome.caller = "alerted"
  /\ attempts = maxAttempts

\* C4: a puzzle returned by generatePuzzle for a size up to 7 has exactly one
\* completion (a Latin square that satisfies every cage clue), and it is the
\* puzzle's stored solution.
C4_ReturnedPuzzleHasOnlyItsSolution ==
  (Verified /\ gnOutcome.promise = "fulfilled") =>
    Completions(gnOutcome.puzzle) = {gnOutcome.puzzle.solution}

\* a 3x3 puzzle of several cages has been returned after failed attempts
C4_Witness ==
  /\ gnOutcome.promise = "fulfilled"
  /\ gnConfig.size = 3
  /\ attempts > 1
  /\ Len(gnOutcome.puzzle.cages) > 1

\* the cages of the candidates generatePuzzle has built so far
BuiltCages ==
  UNION {{[cage |-> gnHistory[i].puzzle.cages[k],
            solution |-> gnHistory[i].puzzle.solution] :
             k \in DOMAIN gnHistory[i].puzzle.cages} : i \in DOMAIN gnHistory}

\* C17: in every puzzle the generator builds, a cage has operation "none" if and
\* only if it has exactly one cell, and then its target is the solution value
\* of that cell; no cage keeps the placeholder target 0 after assignClues.
C17_NoneClueIffSingleCell ==
  \A b \in BuiltCages :
    /\ b.cage.clue.operation = "none" <=> Len(b.cage.cells) = 1
    /\ Len(b.cage.cells) = 1 =>
         b.cage.clue.target = b.solution[b.cage.cells[1].row][b.cage.cells[1].col]
    /\ b.cage.clue.target # 0

\* a built puzzle holds a single-cell cage next to a cage of several cells
C17_Witness ==
  \E i \in DOMAIN gnHistory :
    /\ \E k \in DOMAIN gnHistory[i].puzzle.cages :
         /\ Len(gnHistory[i].puzzle.cages[k].cells) = 1
         /\ gnHistory[i].puzzle.cages[k].clue.operation = "none"
    /\ \E k \in DOMAIN gnHistory[i].puzzle.cages :
         Len(gnHistory[i].puzzle.cages[k].cells) >= 3


\* the puzzle without the timestamp of its id
Content(puzzle) ==
  [solution |-> puzzle.solution, cages |-> puzzle.cages,
   random |-> puzzle.id.random, size |-> puzzle.size, difficulty |-> puzzle.difficulty]

\* lines 48-57 for the candidate built on attempt n + 1
AttemptsAfter(config, built, n) ==
  [attempts |-> n + 1,
   promise |-> IF config.size > VerifyMaxSize \/ UniqueByCount(built.puzzle)
                 THEN "fulfilled" ELSE "retry",
   seed |-> built.seed,
   content |-> Content(built.puzzle)]

\* the call run on its own from the seed field, n attempts made so far, at
\* time 0: the number of attempts it makes, how its promise settles, the seed
\* field it leaves and the puzzle it returns
RECURSIVE AttemptsFrom(_, _, _)

\* lines 51-57 for the outcome r of an attempt: continue, or return
AttemptsNext(config, r) ==
  IF r.promise = "retry" THEN AttemptsFrom(config, r.seed, r.attempts) ELSE r

AttemptsFrom(config, seed, n) ==
  IF ~(n < maxAttempts)
    THEN [attempts |-> n, promise |-> "rejected", seed |-> seed, content |-> NoPuzzle]
    ELSE AttemptsNext(config, AttemptsAfter(config, BuildPuzzle(config, seed, 0), n))

\* all the time of the model has passed in one piece: before the call, or
\* while the call awaited the check of its first candidate
TimePassedAtOnce ==
  /\ attempts >= 1
  /\ \/ gnHistory[1].puzzle.id.timestamp = MaxClock
     \/ /\ attempts >= 2
        /\ gnHistory[1].puzzle.id.timestamp = 0
        /\ gnHistory[2].puzzle.id.timestamp = MaxClock

\* C23: within one generatePuzzle call the random source is created once and
\* never reset: between attempts the seed field is what the last attempt left,
\* an attempt starts only after every earlier candidate was checked and
\* rejected, and the number of attempts, the way the call settles, the seed
\* field it leaves and the puzzle it returns are those of one stream of draws
\* that starts from the seed and runs through all the attempts at time 0
\* (compared when a call settles that was made, or has awaited, at a later time).
C23_OneRandomStreamAcrossAttempts ==
  /\ (gnPc # "start" /\ attempts >= 1) => gnRng = gnHistory[attempts].left
  /\ (gnPc = "loop" /\ attempts = 0 /\ gnConfig.hasSeed) => gnRng = createRNG(gnConfig.seed)
  /\ Len(gnHistory) = attempts
  /\ AllFailedBefore(attempts)
  /\ gnTimer = "set" => (gnPc = "await" /\ ~gnHistory[attempts].checked)
  /\ (gnConfig.hasSeed /\ gnOutcome.promise # "pending" /\ gnOutcome.caller = "waiting"
        /\ TimePassedAtOnce) =>
       [attempts |-> attempts, promise |-> gnOutcome.promise, seed |-> gnRng,
        content |-> IF gnOutcome.promise = "fulfilled"
                      THEN Content(gnOutcome.puzzle) ELSE NoPuzzle]
         = AttemptsFrom(gnConfig, createRNG(gnConfig.seed), 0)

\* a call with a seed has returned the candidate of its third attempt or a later one
C23_Witness ==
  /\ gnConfig.hasSeed
  /\ gnOutcome.promise = "fulfilled"
  /\ gnOutcome.caller = "waiting"
  /\ TimePassedAtOnce
  /\ gnHistory[1].puzzle.id.timestamp = 0
  /\ attempts >= 3
  /\ gnHistory[2].left # gnHistory[1].left

\* C25: for a size above 7 generatePuzzle never starts the uniqueness check: it
\* returns the candidate of its first attempt and never throws; for a size up
\* to 7 it never returns a candidate whose check has not resolved to true.
C25_CheckSkippedAboveSevenRequiredUpToSeven ==
  /\ gnConfig.size > 7 =>
       /\ gnTimer = "none"
       /\ attempts <= 1
       /\ \A k \in DOMAIN gnHistory : ~gnHistory[k].checked
       /\ gnOutcome.promise # "rejected"
       /\ attempts = 1 =>
            /\ gnOutcome.promise = "fulfilled"
            /\ gnOutcome.puzzle = gnHistory[1].puzzle
  /\ (gnConfig.size <= 7 /\ gnOutcome.promise = "fulfilled") =>
       \E k \in DOMAIN gnHistory :
         /\ gnHistory[k].puzzle = gnOutcome.puzzle
         /\ gnHistory[k].checked
         /\ gnHistory[k].unique

\* an 8 x 8 candidate has been returned from the first attempt and loaded
C25_Witness ==
  /\ gnConfig.size = 8
  /\ attempts = 1
  /\ gnOutcome.promise = "fulfilled"
  /\ gnOutcome.caller = "loaded"
  /\ Len(gnOutcome.puzzle.cages) > 1

\* C26: cages generated for the expert preset (minimum cage size 2, single-cell
\* rate 0) never include a single-cell cage, for any seed.
C26_ExpertCagesHaveNoSingleCell ==
  gnConfig.difficulty = "expert" =>
    \A i \in DOMAIN gnHistory : \A k \in DOMAIN gnHistory[i].puzzle.cages :
      Len(gnHistory[i].puzzle.cages[k].cells) >= 2


(***************************************************************************)
(* Two runs of generatePuzzleSync on one configuration.                    *)
(***************************************************************************)

\* the number of runs compared
SyncRuns == 2

\* PuzzleGenerator.ts lines 66-88
generatePuzzleSync(config, now) ==
  BuildPuzzle(config, createRNG(SeedOrNow(config, now)), now).puzzle

SyncInit ==
  /\ clock = 0
  /\ gnConfig \in Configs
  /\ gnPc = "sync"
  /\ gnRng = Word(0, 0)
  /\ attempts = 0
  /\ gnPuzzle = NoPuzzle
  /\ gnTimer = "none"
  /\ hasUnique = FALSE
  /\ gnOutcome = Outcome("none", NoPuzzle, "waiting")
  /\ gnHistory = <<>>
  /\ LatinIdle
  /\ CageIdle
  /\ ClueIdle
  /\ SolverIdle
  /\ ValidatorIdle
  /\ RngIdle
  /\ GameIdle
  /\ SearchIdle
  /\ PairIdle

\* a run of generatePuzzleSync(gnConfig) at the present time; its result is kept
CallGeneratePuzzleSync ==
  /\ gnPc = "sync"
  /\ Len(gnHistory) < SyncRuns
  /\ \E result \in {generatePuzzleSync(gnConfig, clock)} :
        /\ gnPuzzle' = result
        /\ gnHistory' = Append(gnHistory, [puzzle |-> result, checked |-> FALSE,
                                           unique |-> FALSE])
  /\ UNCHANGED <<clock, gnConfig, gnPc, gnRng, attempts, gnTimer, hasUnique, gnOutcome>>
  /\ UNCHANGED <<latinVars, cageVars, clueVars, solverVars, validatorVars, rngVars,
               gameVars, searchVars, pairVars>>

SyncNext ==
  \/ Tick
  \/ CallGeneratePuzzleSync

SpecSync == SyncInit /\ [][SyncNext]_vars

\* the puzzle id without its timestamp part
IdWithoutTimestamp(id) ==
  [difficulty |-> id.difficulty, size |-> id.size, random |-> id.random]

\* C5: two runs of generatePuzzleSync with the same seed, size and difficulty
\* give the same solution grid, the same cage list (ids, cells in order, clues)
\* and the same puzzle id but for its timestamp part.
C5_SameSeedSamePuzzle ==
  (gnConfig.hasSeed /\ Len(gnHistory) = SyncRuns) =>
    /\ gnHistory[1].puzzle.solution = gnHistory[2].puzzle.solution
    /\ gnHistory[1].puzzle.cages = gnHistory[2].puzzle.cages
    /\ IdWithoutTimestamp(gnHistory[1].puzzle.id) = IdWithoutTimestamp(gnHistory[2].puzzle.id)

\* two seeded runs at different times, over a grid of several cages
C5_Witness ==
  /\ gnConfig.hasSeed
  /\ Len(gnHistory) = SyncRuns
  /\ gnHistory[1].puzzle.id.timestamp # gnHistory[2].puzzle.id.timestamp
  /\ Len(gnHistory[1].puzzle.cages) > 1


(***************************************************************************)
(* Move validator (engine/validation/Validator.ts) and getHint.  A grid is *)
(* a list of row arrays; vdHeap holds the row arrays that exist, so that a *)
(* write through a copy of the grid reaches the caller's grid exactly when  *)
(* the two share a row array.                                              *)
(***************************************************************************)

\* the values a list of row arrays holds: grid[row][col]
GridOf(heap, grid) == [row \in Idx(Len(grid)) |-> heap[grid[row + 1]]]

\* a copy of the list that keeps the row arrays: [...grid]
CopyGridSharingRows(heap, grid) == [heap |-> heap, grid |-> grid]

\* line 64: grid.map(row => [...row]): a new row array for every row
CopyGrid(heap, grid) ==
  [heap |-> heap \o [k \in 1 .. Len(grid) |-> heap[grid[k]]],
   grid |-> [k \in 1 .. Len(grid) |-> Len(heap) + k]]

\* line 65: tempGrid[cell.row][cell.col] = value
WriteCell(temp, cell, value) ==
  [temp EXCEPT !.heap[temp.grid[cell.row + 1]][cell.col] = value]

\* the cells the loops of lines 40 and 47 visit (k counts the iterations)
RowOf(cell, size) == [k \in 1 .. size |-> Cell(cell.row, k - 1)]

ColumnOf(cell, size) == [k \in 1 .. size |-> Cell(k - 1, cell.col)]

\* conflicts that leave out the column loop
findConflictsRowOnly(puzzle, grid, cell, value) ==
  SelectSeq(RowOf(cell, puzzle.size),
            LAMBDA c : c.col # cell.col /\ grid[cell.row][c.col] = value)

\* lines 36-54
findConflicts(puzzle, grid, cell, value) ==
  SelectSeq(RowOf(cell, puzzle.size),
            LAMBDA c : c.col # cell.col /\ grid[cell.row][c.col] = value)
  \o SelectSeq(ColumnOf(cell, puzzle.size),
               LAMBDA c : c.row # cell.row /\ grid[c.row][cell.col] = value)

\* lines 85-92: the index of the first cage that lists the cell; 0 stands for null
findCage(puzzle, cell) ==
  IF \E k \in DOMAIN puzzle.cages : cell \in Range(puzzle.cages[k].cells)
    THEN CHOOSE k \in DOMAIN puzzle.cages :
           /\ cell \in Range(puzzle.cages[k].cells)
           /\ \A m \in 1 .. (k - 1) : cell \notin Range(puzzle.cages[m].cells)
    ELSE 0

\* lines 97-124; larger / smaller === target is larger = target * smaller
validateCage(cage, grid) ==
  LET values == CellValues(cage.cells, grid)
  IN CASE cage.clue.operation = "none" -> Len(values) = 1 /\ values[1] = cage.clue.target
       [] cage.clue.operation = "+" -> SumSeq(values) = cage.clue.target
       [] cage.clue.operation = "-" ->
            IF Len(values) # 2 THEN FALSE
            ELSE Abs(values[1] - values[2]) = cage.clue.target
       [] cage.clue.operation = "*" -> ProductSeq(values) = cage.clue.target
       [] cage.clue.operation = "/" ->
            IF Len(values) # 2 THEN FALSE
            ELSE Min(values[1], values[2]) # 0
                 /\ Max(values[1], values[2]) = cage.clue.target * Min(values[1], values[2])
       [] OTHER -> FALSE

\* a check that reports a cage as soon as one of its cells is filled
CageErrorsEager(cage, temp) ==
  [value |-> IF ~validateCage(cage, GridOf(temp.heap, temp.grid)) THEN cage.cells ELSE <<>>,
   heap |-> temp.heap]

\* lines 67-79 for the cage and the temporary grid: the cells returned, and the
\* row arrays as the call leaves them
CageErrorsIn(cage, temp) ==
  [value |->
     IF \E k \in DOMAIN cage.cells :
          GridOf(temp.heap, temp.grid)[cage.cells[k].row][cage.cells[k].col] = 0
       THEN <<>>
     ELSE IF ~validateCage(cage, GridOf(temp.heap, temp.grid)) THEN cage.cells
     ELSE <<>>,
   heap |-> temp.heap]

\* lines 59-80
findCageErrors(puzzle, heap, grid, cell, value) ==
  IF findCage(puzzle, cell) = 0 THEN [value |-> <<>>, heap |-> heap]
  ELSE CageErrorsIn(puzzle.cages[findCage(puzzle, cell)],
                    WriteCell(CopyGrid(heap, grid), cell, value))

\* lines 26-30 for the two lists
ValidationResult(conflicts, errors) ==
  [value |-> [valid |-> Len(conflicts) = 0 /\ Len(errors.value) = 0,
              conflicts |-> conflicts,
              cageErrors |-> errors.value],
   heap |-> errors.heap]

\* lines 22-31
isValidMove(puzzle, heap, grid, cell, value) ==
  ValidationResult(findConflicts(puzzle, GridOf(heap, grid), cell, value),
                   findCageErrors(puzzle, heap, grid, cell, value))

\* the cells in the order the nested loops over row and col visit them
RowMajor(size) == [k \in 1 .. size * size |-> CellAt(size, k - 1)]

\* an error scan that also reports the empty cells
findAllErrorsWithEmpty(puzzle, grid) ==
  SelectSeq(RowMajor(puzzle.size),
            LAMBDA c : grid[c.row][c.col] # puzzle.solution[c.row][c.col])

\* lines 129-145
findAllErrors(puzzle, grid) ==
  SelectSeq(RowMajor(puzzle.size),
            LAMBDA c : /\ grid[c.row][c.col] # 0
                       /\ grid[c.row][c.col] # puzzle.solution[c.row][c.col])

\* a completion check that passes over the empty cells
isCompleteSkippingEmpty(puzzle, grid) ==
  \A row \in Idx(puzzle.size), col \in Idx(puzzle.size) :
    grid[row][col] = 0 \/ grid[row][col] = puzzle.solution[row][col]

\* lines 150-159
isComplete(puzzle, grid) ==
  \A row \in Idx(puzzle.size), col \in Idx(puzzle.size) :
    grid[row][col] = puzzle.solution[row][col]

\* lines 164-173
isFull(puzzle, grid) ==
  \A row \in Idx(puzzle.size), col \in Idx(puzzle.size) : grid[row][col] # 0

\* lines 178-195; the percentage (filled / total) * 100 is kept as a fraction
getProgress(puzzle, grid) ==
  LET filled == Cardinality({c \in AllCells(puzzle.size) : grid[c.row][c.col] # 0})
      total == puzzle.size * puzzle.size
  IN [filled |-> filled, total |-> total,
      percentage |-> [numerator |-> filled * 100, denominator |-> total]]

\* LatinSquare.ts lines 342-348: the values pushed to validValues
ValidValues(grid, cell, size) ==
  SelectSeq([k \in 1 .. size |-> k],
            LAMBDA value : isValidPlacement(grid, cell.row, cell.col, value, size))

\* a hint that skips the search for a cell with one valid value
getHintFirstEmpty(puzzle, grid) ==
  LET empty == SelectSeq(RowMajor(puzzle.size), LAMBDA c : grid[c.row][c.col] = 0)
  IN IF empty # <<>> THEN empty[1] ELSE <<>>

\* LatinSquare.ts lines 336-368; <<>> stands for null
getHint(puzzle, grid) ==
  LET empty == SelectSeq(RowMajor(puzzle.size), LAMBDA c : grid[c.row][c.col] = 0)
      single == SelectSeq(empty, LAMBDA c : Len(ValidValues(grid, c, puzzle.size)) = 1)
  IN IF single # <<>> THEN single[1]
     ELSE IF empty # <<>> THEN empty[1]
     ELSE <<>>


\* a grid given by its rows
GridFromRows(rows) ==
  [row \in Idx(Len(rows)) |-> [col \in Idx(Len(rows)) |-> rows[row + 1][col + 1]]]

\* the 3 x 3 puzzle of the Validator tests
FixturePuzzle ==
  [size |-> 3,
   cages |-> << [id |-> 1, cells |-> <<Cell(0, 0)>>, clue |-> Clue(1, "none")],
                [id |-> 2, cells |-> <<Cell(0, 1), Cell(0, 2)>>, clue |-> Clue(5, "+")],
                [id |-> 3, cells |-> <<Cell(1, 0), Cell(2, 0)>>, clue |-> Clue(1, "-")],
                [id |-> 4, cells |-> <<Cell(1, 1), Cell(2, 1)>>, clue |-> Clue(3, "*")],
                [id |-> 5, cells |-> <<Cell(1, 2), Cell(2, 2)>>, clue |-> Clue(2, "/")] >>,
   solution |-> GridFromRows(<< <<1, 2, 3>>, <<2, 3, 1>>, <<3, 1, 2>> >>)]

\* the grids solved, broken, partial and wrong of the Validator tests
FixtureGrids ==
  {GridFromRows(<< <<1, 2, 3>>, <<2, 3, 1>>, <<3, 1, 2>> >>),
   GridFromRows(<< <<2, 2, 3>>, <<2, 2, 1>>, <<3, 1, 3>> >>),
   GridFromRows(<< <<1, 0, 3>>, <<2, 3, 1>>, <<0, 0, 2>> >>),
   GridFromRows(<< <<1, 2, 3>>, <<2, 1, 3>>, <<3, 3, 2>> >>)}

\* 2 x 2 cage layouts: three cells and a single cell; one cage of two cells
\* that leaves the second row without a cage
SmallLayouts == { << <<0, 1, 3>>, <<2>> >>, << <<0, 1>> >> }

\* 2 x 2 puzzles whose cages all carry the same clue, of any operation
SmallPuzzles ==
  {[size |-> 2,
    cages |-> [k \in DOMAIN layout |->
                 [id |-> k,
                  cells |-> [i \in DOMAIN layout[k] |-> CellAt(2, layout[k][i])],
                  clue |-> Clue(t, op)]],
    solution |-> GridFromRows(<< <<1, 2>>, <<2, 1>> >>)] :
     layout \in SmallLayouts, op \in Operations \cup {"none"}, t \in 1 .. ValidatorMaxTarget}

\* the progress grids of a call: every 2 x 2 grid over 0..2; for the fixture
\* the grids of the tests and every grid with at most ValidatorMaxFilled cells
\* filled
ProgressGrids(puzzle) ==
  IF puzzle.size = 2 THEN [Idx(2) -> [Idx(2) -> 0 .. 2]]
  ELSE FixtureGrids \cup
       {g \in [Idx(3) -> [Idx(3) -> 0 .. 3]] :
          Cardinality({c \in AllCells(3) : g[c.row][c.col] # 0}) <= ValidatorMaxFilled}

ValidatorInit ==
  /\ \E puzzle \in SmallPuzzles \cup {FixturePuzzle} :
       \E g \in ProgressGrids(puzzle) :
         /\ vdPuzzle = puzzle
         /\ vdHeap = [k \in 1 .. puzzle.size |-> g[k - 1]]
         /\ vdGrid = [k \in 1 .. puzzle.size |-> k]
  /\ vdCall = <<>>
  /\ vdResult = <<>>
  /\ LatinIdle
  /\ CageIdle
  /\ ClueIdle
  /\ SolverIdle
  /\ GenIdle
  /\ RngIdle
  /\ GameIdle
  /\ SearchIdle
  /\ PairIdle

\* the caller is between two calls
CallerReady == vdCall = <<>>

\* a call returns: the caller holds the result; the row arrays the call made
\* are out of reach and dropped
ValidatorReturns(method, args, result, heap) ==
  /\ vdCall' = [method |-> method, args |-> args]
  /\ vdResult' = result
  /\ vdHeap' = SubSeq(heap, 1, Len(vdGrid))
  /\ UNCHANGED <<vdPuzzle, vdGrid>>
  /\ UNCHANGED <<latinVars, cageVars, clueVars, solverVars, genVars, rngVars,
               gameVars, searchVars, pairVars>>

\* validator.isValidMove(grid, cell, value)
CallIsValidMove ==
  /\ CallerReady
  /\ \E cell \in AllCells(vdPuzzle.size), value \in 0 .. vdPuzzle.size :
       \E r \in {isValidMove(vdPuzzle, vdHeap, vdGrid, cell, value)} :
         ValidatorReturns("isValidMove", <<cell, value>>, r.value, r.heap)

\* validator.findConflicts(grid, cell, value)
CallFindConflicts ==
  /\ CallerReady
  /\ \E cell \in AllCells(vdPuzzle.size), value \in 0 .. vdPuzzle.size :
       ValidatorReturns("findConflicts", <<cell, value>>,
                        findConflicts(vdPuzzle, GridOf(vdHeap, vdGrid), cell, value), vdHeap)

\* validator.findCageErrors(grid, cell, value)
CallFindCageErrors ==
  /\ CallerReady
  /\ \E cell \in AllCells(vdPuzzle.size), value \in 0 .. vdPuzzle.size :
       \E r \in {findCageErrors(vdPuzzle, vdHeap, vdGrid, cell, value)} :
         ValidatorReturns("findCageErrors", <<cell, value>>, r.value, r.heap)

\* validator.findAllErrors(grid)
CallFindAllErrors ==
  /\ CallerReady
  /\ ValidatorReturns("findAllErrors", <<>>,
                      findAllErrors(vdPuzzle, GridOf(vdHeap, vdGrid)), vdHeap)

\* validator.isComplete(grid)
CallIsComplete ==
  /\ CallerReady
  /\ ValidatorReturns("isComplete", <<>>, isComplete(vdPuzzle, GridOf(vdHeap, vdGrid)), vdHeap)

\* validator.isFull(grid)
CallIsFull ==
  /\ CallerReady
  /\ ValidatorReturns("isFull", <<>>, isFull(vdPuzzle, GridOf(vdHeap, vdGrid)), vdHeap)

\* validator.getProgress(grid)
CallGetProgress ==
  /\ CallerReady
  /\ ValidatorReturns("getProgress", <<>>, getProgress(vdPuzzle, GridOf(vdHeap, vdGrid)), vdHeap)

\* getHint(puzzle, grid)
CallGetHint ==
  /\ CallerReady
  /\ ValidatorReturns("getHint", <<>>, getHint(vdPuzzle, GridOf(vdHeap, vdGrid)), vdHeap)

\* the caller is done with the result and may call again
CallerContinues ==
  /\ vdCall # <<>>
  /\ vdCall' = <<>>
  /\ vdResult' = <<>>
  /\ UNCHANGED <<vdPuzzle, vdHeap, vdGrid>>
  /\ UNCHANGED <<latinVars, cageVars, clueVars, solverVars, genVars, rngVars,
               gameVars, searchVars, pairVars>>

ValidatorNext ==
  \/ CallIsValidMove
  \/ CallFindConflicts
  \/ CallFindCageErrors
  \/ CallFindAllErrors
  \/ CallIsComplete
  \/ CallIsFull
  \/ CallGetProgress
  \/ CallGetHint
  \/ CallerContinues

SpecValidator == ValidatorInit /\ [][ValidatorNext]_vars

\* the last call was of the method
Called(method) == vdCall # <<>> /\ vdCall.method = method

\* the grid the caller holds
CallerGrid == GridOf(vdHeap, vdGrid)

\* the cages that list the cell
CagesOf(puzzle, cell) == {k \in DOMAIN puzzle.cages : cell \in Range(puzzle.cages[k].cells)}

\* the cage of the cell still has an empty cell once the value is placed
CageOpenWith(puzzle, grid, cell, value) ==
  \E k \in CagesOf(puzzle, cell) : \E c \in Range(puzzle.cages[k].cells) :
    [grid EXCEPT ![cell.row][cell.col] = value][c.row][c.col] = 0

\* the cage of the cell passes the exact check of its clue once the value is placed
CageExactWith(puzzle, grid, cell, value) ==
  \E k \in CagesOf(puzzle, cell) :
    isFullCageValid(puzzle.cages[k],
                    CellValues(puzzle.cages[k].cells,
                               [grid EXCEPT ![cell.row][cell.col] = value]))

\* the other cells of the cell's row and column that hold the value
OthersHolding(puzzle, grid, cell, value) ==
  {c \in AllCells(puzzle.size) :
     /\ c # cell
     /\ c.row = cell.row \/ c.col = cell.col
     /\ grid[c.row][c.col] = value}

\* C11: isValidMove(grid, cell, value), for a cell that belongs to a cage,
\* returns valid = true exactly when no other cell of the row or column holds
\* the value and the cage either still has an empty cell after the tentative
\* placement or, completely filled, satisfies its clue exactly; the conflicts
\* are exactly the other cells of the row and column holding the value, each
\* listed once.
C11_ValidMoveIffNoConflictAndCageOpenOrExact ==
  (Called("isValidMove") /\ CagesOf(vdPuzzle, vdCall.args[1]) # {}) =>
    /\ vdResult.valid <=>
         /\ OthersHolding(vdPuzzle, CallerGrid, vdCall.args[1], vdCall.args[2]) = {}
         /\ \/ CageOpenWith(vdPuzzle, CallerGrid, vdCall.args[1], vdCall.args[2])
            \/ CageExactWith(vdPuzzle, CallerGrid, vdCall.args[1], vdCall.args[2])
    /\ Range(vdResult.conflicts)
         = OthersHolding(vdPuzzle, CallerGrid, vdCall.args[1], vdCall.args[2])
    /\ Len(vdResult.conflicts) = Cardinality(Range(vdResult.conflicts))

\* on the fixture with grid[2][0] = 3, the value 1 at (1,0) conflicts with no
\* cell and is rejected by the subtraction cage alone
C11_Witness ==
  /\ Called("isValidMove")
  /\ vdPuzzle = FixturePuzzle
  /\ vdCall.args = <<Cell(1, 0), 1>>
  /\ CallerGrid[2][0] = 3
  /\ vdResult.conflicts = <<>>
  /\ ~vdResult.valid

\* C12: findCageErrors(grid, cell, value), for a cell that belongs to a cage,
\* returns the empty list whenever the cage still has an empty cell after the
\* tentative placement; for a completely filled cage it returns all the cells of
\* the cage when the exact check fails and the empty list when it passes.
C12_CageErrorsOnlyForFilledFailingCage ==
  (Called("findCageErrors") /\ CagesOf(vdPuzzle, vdCall.args[1]) # {}) =>
    vdResult =
      IF CageOpenWith(vdPuzzle, CallerGrid, vdCall.args[1], vdCall.args[2]) THEN <<>>
      ELSE IF CageExactWith(vdPuzzle, CallerGrid, vdCall.args[1], vdCall.args[2]) THEN <<>>
      ELSE vdPuzzle.cages[CHOOSE k \in CagesOf(vdPuzzle, vdCall.args[1]) : TRUE].cells

\* a completely filled subtraction cage of three cells is reported whole
C12_Witness ==
  /\ Called("findCageErrors")
  /\ Len(vdResult) = 3
  /\ vdPuzzle.cages[1].clue.operation = "-"
  /\ ~CageOpenWith(vdPuzzle, CallerGrid, vdCall.args[1], vdCall.args[2])

\* the position of a cell in row-major order
RowMajorIndex(puzzle, cell) == cell.row * puzzle.size + cell.col

\* C13: findAllErrors(grid) returns, in row-major order, exactly the non-empty
\* cells whose value differs from the solution at that cell; an empty cell and
\* a cell equal to the solution are never reported.
C13_AllErrorsAreFilledMismatches ==
  Called("findAllErrors") =>
    /\ Range(vdResult) =
         {c \in AllCells(vdPuzzle.size) :
            /\ CallerGrid[c.row][c.col] # 0
            /\ CallerGrid[c.row][c.col] # vdPuzzle.solution[c.row][c.col]}
    /\ \A i, j \in DOMAIN vdResult :
         i < j => RowMajorIndex(vdPuzzle, vdResult[i]) < RowMajorIndex(vdPuzzle, vdResult[j])

\* the scan of a grid that holds empty cells, correct cells and a wrong cell
C13_Witness ==
  /\ Called("findAllErrors")
  /\ Len(vdResult) = 1
  /\ \E c \in AllCells(vdPuzzle.size) : CallerGrid[c.row][c.col] = 0
  /\ \E c \in AllCells(vdPuzzle.size) :
       CallerGrid[c.row][c.col] = vdPuzzle.solution[c.row][c.col]

\* C14: no call of a Validator method or of getHint changes the puzzle or the
\* grid the caller passed: both are equal before and after every step.
C14_CallsLeavePuzzleAndGridAlone ==
  [][/\ vdPuzzle' = vdPuzzle
     /\ GridOf(vdHeap', vdGrid') = GridOf(vdHeap, vdGrid)]_vars

\* isValidMove has returned cage errors: the tentative value made a cage fail
C14_Witness ==
  /\ Called("isValidMove")
  /\ vdResult.cageErrors # <<>>
  /\ CallerGrid[vdCall.args[1].row][vdCall.args[1].col] # vdCall.args[2]

\* the cell is empty and exactly one value of 1..N appears nowhere else in its
\* row and column
NakedSingle(puzzle, grid, cell) ==
  /\ grid[cell.row][cell.col] = 0
  /\ Cardinality({v \in 1 .. puzzle.size :
                    \A c \in AllCells(puzzle.size) :
                      (c # cell /\ (c.row = cell.row \/ c.col = cell.col))
                        => grid[c.row][c.col] # v}) = 1

\* C15: getHint returns the first empty cell in row-major order for which
\* exactly one value of 1..N appears nowhere else in its row and column; when
\* no empty cell has exactly one such value, the first empty cell in row-major
\* order; and null exactly when the grid has no empty cell.
C15_HintIsFirstSingleElseFirstEmpty ==
  Called("getHint") =>
    LET empty == {c \in AllCells(vdPuzzle.size) : CallerGrid[c.row][c.col] = 0}
        singles == {c \in AllCells(vdPuzzle.size) : NakedSingle(vdPuzzle, CallerGrid, c)}
        from == IF singles # {} THEN singles ELSE empty
    IN /\ vdResult = <<>> <=> empty = {}
       /\ vdResult # <<>> =>
            /\ vdResult \in from
            /\ \A c \in from : RowMajorIndex(vdPuzzle, vdResult) <= RowMajorIndex(vdPuzzle, c)

\* the hint is a cell with a single value although an empty cell comes before it
C15_Witness ==
  /\ Called("getHint")
  /\ vdResult # <<>>
  /\ NakedSingle(vdPuzzle, CallerGrid, vdResult)
  /\ \E c \in AllCells(vdPuzzle.size) :
       /\ CallerGrid[c.row][c.col] = 0
       /\ RowMajorIndex(vdPuzzle, c) < RowMajorIndex(vdPuzzle, vdResult)


\* the grid has an empty cell
HasEmptyCell(puzzle, grid) ==
  \E c \in AllCells(puzzle.size) : grid[c.row][c.col] = 0

\* C30: for a puzzle whose solution has no empty entry and every progress grid,
\* isComplete(grid) is true exactly when isFull(grid) is true and
\* findAllErrors(grid) is empty; a grid with an empty cell is never complete.
C30_CompleteIffFullAndNoErrors ==
  ~HasEmptyCell(vdPuzzle, vdPuzzle.solution) =>
    /\ Called("isComplete") =>
         /\ vdResult <=> (isFull(vdPuzzle, CallerGrid) /\ findAllErrors(vdPuzzle, CallerGrid) = <<>>)
         /\ HasEmptyCell(vdPuzzle, CallerGrid) => ~vdResult
    /\ Called("isFull") =>
         (vdResult /\ findAllErrors(vdPuzzle, CallerGrid) = <<>>) <=> isComplete(vdPuzzle, CallerGrid)
    /\ Called("findAllErrors") =>
         (vdResult = <<>> /\ isFull(vdPuzzle, CallerGrid)) <=> isComplete(vdPuzzle, CallerGrid)

\* isComplete has returned false for a grid without errors that has an empty cell
C30_Witness ==
  /\ Called("isComplete")
  /\ ~vdResult
  /\ HasEmptyCell(vdPuzzle, CallerGrid)
  /\ findAllErrors(vdPuzzle, CallerGrid) = <<>>
  /\ \E c \in AllCells(vdPuzzle.size) : CallerGrid[c.row][c.col] # 0


(***************************************************************************)
(* A SeededRNG and a user that calls nextInt and pick on it.               *)
(***************************************************************************)

\* rng.ts lines 12-13, for a numeric seed: seed >>> 0
createRNGFromNumber(seed) == Word((seed \div Half) % Half, seed % Half)

\* the seed fields the user starts from: string seeds, words of extreme
\* halves, and the numeric seeds 3449388 and 879806, whose first draws are
\* (2^32 - 587) / 2^32 and 2203 / 2^32
RngSeeds ==
  {createRNG(str) : str \in SeedStrings(1)}
  \cup {Word(h, l) : h \in {0, 32768, 65535}, l \in {0, 1, 32767, 65535}}
  \cup {createRNGFromNumber(3449388), createRNGFromNumber(879806)}

\* the arguments of nextInt: every min <= max within the bound, and those of
\* generatePuzzleId
NextIntArgs ==
  {a \in (-RngMaxBound .. RngMaxBound) \X (-RngMaxBound .. RngMaxBound) : a[1] <= a[2]}
  \cup {<<1000, 9999>>}

\* the arguments of pick: the lists of 1..RngMaxLength distinct elements
PickArgs == {[k \in 1 .. n |-> 100 + k] : n \in 1 .. RngMaxLength}

RngInit ==
  /\ rgSeed \in RngSeeds
  /\ rgDraws = 0
  /\ rgCall = <<>>
  /\ LatinIdle
  /\ CageIdle
  /\ ClueIdle
  /\ SolverIdle
  /\ GenIdle
  /\ ValidatorIdle
  /\ GameIdle
  /\ SearchIdle
  /\ PairIdle

\* the call returns its value and leaves the seed field advanced
RngReturns(method, args, r) ==
  /\ rgSeed' = r.seed
  /\ rgDraws' = rgDraws + 1
  /\ rgCall' = [method |-> method, args |-> args, value |-> r.value]
  /\ UNCHANGED <<latinVars, cageVars, clueVars, solverVars, genVars, validatorVars,
               gameVars, searchVars, pairVars>>

\* rng.nextInt(min, max)
CallNextInt ==
  /\ rgDraws < RngMaxDraws
  /\ \E a \in NextIntArgs : RngReturns("nextInt", a, nextInt(rgSeed, a[1], a[2]))

\* rng.pick(array)
CallPick ==
  /\ rgDraws < RngMaxDraws
  /\ \E array \in PickArgs : RngReturns("pick", array, pick(rgSeed, array))

RngNext == CallNextInt \/ CallPick

SpecRng == RngInit /\ [][RngNext]_vars

\* C19: for every state of the random source and all integers min <= max,
\* nextInt(min, max) returns an integer r with min <= r <= max, and pick on a
\* non-empty list returns an element of the list.
C19_NextIntWithinRangePickFromList ==
  rgCall # <<>> =>
    /\ rgCall.method = "nextInt" =>
         /\ rgCall.value \in Int
         /\ rgCall.args[1] <= rgCall.value
         /\ rgCall.value <= rgCall.args[2]
    /\ rgCall.method = "pick" => rgCall.value \in Range(rgCall.args)

\* nextInt has returned max for a range of several values, on the draw
\* (2^32 - 587) / 2^32
C19_Witness ==
  /\ rgCall # <<>>
  /\ rgCall.method = "nextInt"
  /\ rgDraws = 1
  /\ rgSeed = AddW(createRNGFromNumber(3449388), Increment)
  /\ rgCall.args[1] < rgCall.args[2]
  /\ rgCall.value = rgCall.args[2]


(***************************************************************************)
(* The hint system (hints/HintSystem.ts, src/unnamed/part_001), the undo    *)
(* stack (app/UndoStack.ts, src/unnamed/part_002) and the handlers of Game  *)
(* (app/Game.ts) on the state of its StateManager (app/StateManager.ts).    *)
(* Notes mode stays off, so every cell's notes stay empty and are left out. *)
(***************************************************************************)

\* part_001 lines 163-175: getPossibleValues
getPossibleValues(grid, row, col, size) ==
  SelectSeq([v \in 1 .. size |-> v],
            LAMBDA v : /\ \A c \in Idx(size) : grid[row][c] # v
                       /\ \A r \in Idx(size) : grid[r][col] # v)

\* a hint, with its optional value
Hint(cell, value, reason) == [cell |-> cell, value |-> value, reason |-> reason]

\* part_001 lines 59-78: findOnlyOptionHint; <<>> stands for null
findOnlyOptionHint(puzzle, grid) ==
  LET single == SelectSeq(RowMajor(puzzle.size),
                  LAMBDA c : /\ grid[c.row][c.col] = 0
                             /\ Len(getPossibleValues(grid, c.row, c.col, puzzle.size)) = 1)
  IN IF single = <<>> THEN <<>>
     ELSE Hint(single[1],
               getPossibleValues(grid, single[1].row, single[1].col, puzzle.size)[1],
               "only-option")

\* a number as calculateRequiredValue returns it: the quotient num / den, or null
Required(num, den) == [null |-> FALSE, num |-> num, den |-> den]

NoRequired == [null |-> TRUE, num |-> 0, den |-> 1]

\* part_001 lines 130-158: calculateRequiredValue
calculateRequiredValue(target, operation, filledValues) ==
  CASE operation = "+" -> Required(target - SumSeq(filledValues), 1)
    [] operation = "*" -> Required(target, ProductSeq(filledValues))
    [] operation = "-" ->
         IF Len(filledValues) # 1 THEN NoRequired
         ELSE IF Abs(target + filledValues[1]) = target * 2 + filledValues[1]
           THEN Required(target + filledValues[1], 1)
           ELSE Required(Abs(target - filledValues[1]), 1)
    [] operation = "/" ->
         IF Len(filledValues) # 1 THEN NoRequired
         ELSE IF target # 0 /\ filledValues[1] > target /\ filledValues[1] % target = 0
           THEN Required(filledValues[1] \div target, 1)
         ELSE IF target % filledValues[1] = 0
           THEN Required(target \div filledValues[1], 1)
         ELSE NoRequired
    [] OTHER -> NoRequired

\* part_001 lines 111-113: possibleValues.includes(requiredValue)
IncludesRequired(possibleValues, required) ==
  \E k \in DOMAIN possibleValues : possibleValues[k] * required.den = required.num

\* part_001 lines 109-121 for the computed requiredValue
CageHintFor(grid, size, cell, required) ==
  IF required.null THEN <<>>
  ELSE IF IncludesRequired(getPossibleValues(grid, cell.row, cell.col, size), required)
    THEN Hint(cell, required.num \div required.den, "cage-constraint")
  ELSE <<>>

\* part_001 lines 94-125: analyzeCageForHint
analyzeCageForHint(puzzle, grid, cage) ==
  LET emptyCells == SelectSeq(cage.cells, LAMBDA c : grid[c.row][c.col] = 0)
  IN IF Len(emptyCells) # 1 THEN <<>>
     ELSE CageHintFor(grid, puzzle.size, emptyCells[1],
                      calculateRequiredValue(cage.clue.target, cage.clue.operation,
                                             FilledValues(cage, grid)))

\* part_001 lines 83-89: findCageConstraintHint: the hint of the first cage that has one
findCageConstraintHint(puzzle, grid) ==
  LET hinting == SelectSeq([k \in DOMAIN puzzle.cages |-> k],
                   LAMBDA k : analyzeCageForHint(puzzle, grid, puzzle.cages[k]) # <<>>)
  IN IF hinting = <<>> THEN <<>>
     ELSE analyzeCageForHint(puzzle, grid, puzzle.cages[hinting[1]])

\* part_001 lines 184-191 for the cell the solver's getHint has returned
SolverHintAt(puzzle, cell) ==
  IF cell = <<>> THEN <<>>
  ELSE Hint(cell, puzzle.solution[cell.row][cell.col], "only-option")

\* part_001 lines 180-192: getSolverHint
getSolverHint(puzzle, grid) == SolverHintAt(puzzle, getHint(puzzle, grid))

\* part_001 lines 31-54: HintSystem.getHint, the hint it returns (the counter
\* hintsUsed is incremented where a hint is returned)
HintSystemGetHint(puzzle, grid) ==
  IF findOnlyOptionHint(puzzle, grid) # <<>> THEN findOnlyOptionHint(puzzle, grid)
  ELSE IF findCageConstraintHint(puzzle, grid) # <<>> THEN findCageConstraintHint(puzzle, grid)
  ELSE getSolverHint(puzzle, grid)

\* part_002 line 17: the default maxSize
UndoMaxSize == 100

\* an entry of the stacks; the grid is a copy (part_002 lines 31 and 76)
UndoState(grid, action) == [grid |-> grid, action |-> action]

\* the two stacks of an UndoStack
Stacks(undo, redo) == [undoStack |-> undo, redoStack |-> redo]

\* part_002 lines 24-43: push
push(stacks, grid, action) ==
  LET pushed == Append(stacks.undoStack, UndoState(grid, action))
  IN Stacks(IF Len(pushed) > UndoMaxSize THEN Tail(pushed) ELSE pushed, <<>>)

\* part_002 lines 49-54: undo; the state it returns (<<>> for null) and the stacks
undo(stacks) ==
  IF Len(stacks.undoStack) = 0 THEN [state |-> <<>>, stacks |-> stacks]
  ELSE [state |-> stacks.undoStack[Len(stacks.undoStack)],
        stacks |-> Stacks(SubSeq(stacks.undoStack, 1, Len(stacks.undoStack) - 1),
                          stacks.redoStack)]

\* part_002 lines 59-65: redo
redo(stacks) ==
  IF Len(stacks.redoStack) = 0 THEN [state |-> <<>>, stacks |-> stacks]
  ELSE [state |-> stacks.redoStack[Len(stacks.redoStack)],
        stacks |-> Stacks(Append(stacks.undoStack, stacks.redoStack[Len(stacks.redoStack)]),
                          SubSeq(stacks.redoStack, 1, Len(stacks.redoStack) - 1))]

\* part_002 lines 70-80: saveForRedo
saveForRedo(stacks, grid, action) ==
  Stacks(stacks.undoStack, Append(stacks.redoStack, UndoState(grid, action)))

\* StateManager.ts lines 135-151: setCell, on the grid
setCell(grid, cell, value) == [grid EXCEPT ![cell.row][cell.col] = value]

\* StateManager.ts lines 156-161: clearCell
clearCell(grid, cell) == [grid EXCEPT ![cell.row][cell.col] = 0]

\* the puzzles of the games: 2 x 2 and 3 x 3 puzzles whose clues are derived
\* from a solution, with subtraction and division among the operations
GameLayouts == [n \in SolverSizes |->
  IF n = 2
    THEN { << <<0, 1>>, <<2, 3>> >>, << <<0, 1, 3>>, <<2>> >> }
    ELSE { << <<0, 1>>, <<2, 5>>, <<3, 6>>, <<4>>, <<7, 8>> >> }]

\* the operations of the easy preset and those of the hard and expert presets
GameOperationSets == {{"+", "-"}, Operations}

GamePuzzles ==
  UNION {
    {[size |-> n, cages |-> assignClues(LayoutCages(n, layout), solution, operations),
      solution |-> solution] :
       layout \in GameLayouts[n], solution \in {g \in LatinGrids[n] : g[0] = [c \in Idx(n) |-> c + 1]},
       operations \in GameOperationSets}
    : n \in SolverSizes}

\* the cells of the grid that agree with the solution
AgreeingCells(puzzle, grid) ==
  {c \in AllCells(puzzle.size) : grid[c.row][c.col] = puzzle.solution[c.row][c.col]}

\* every filled cell of the grid holds the solution's value
IsCorrectSoFar(puzzle, grid) ==
  \A c \in AllCells(puzzle.size) :
    grid[c.row][c.col] = 0 \/ grid[c.row][c.col] = puzzle.solution[c.row][c.col]

GameMaxFilled == 1
GameMaxStack == 1
GameMaxHints == 1

\* the grids of the sessions a game resumes (Game.ts lines 124-157): the empty
\* grid and the grids that hold up to GameMaxFilled values of the solution
SessionGrids(puzzle) ==
  {[row \in Idx(puzzle.size) |-> [col \in Idx(puzzle.size) |->
      IF Cell(row, col) \in filled THEN puzzle.solution[row][col] ELSE 0]] :
     filled \in {f \in SUBSET AllCells(puzzle.size) : Cardinality(f) <= GameMaxFilled}}

\* the cells the player selects
PlayedCells(puzzle) ==
  IF puzzle.size = 2 THEN AllCells(2) ELSE {Cell(0, 0), Cell(0, 1)}

\* Game.ts lines 459-467 with showErrors on: updateValidationErrors
ValidationErrors(puzzle, grid) == findAllErrors(puzzle, grid)

\* a handler call in the log
Handled(op, ok, before, hint) == [op |-> op, ok |-> ok, before |-> before, hint |-> hint]

\* the log after a handler call: the call and the one before it
Logged(op, ok, hint) ==
  gmLog' = IF gmLog = <<>> THEN <<Handled(op, ok, gmGrid, hint)>>
           ELSE <<Handled(op, ok, gmGrid, hint), gmLog[1]>>

GameInit ==
  /\ \E puzzle \in GamePuzzles : \E g \in SessionGrids(puzzle) :
       /\ gmPuzzle = puzzle
       /\ gmGrid = g
       /\ gmErrors = ValidationErrors(puzzle, g)
  /\ gmSelected = <<>>
  /\ gmStatus = "playing"
  /\ gmHintsUsed = 0
  /\ hsHintsUsed = 0
  /\ undoStack = <<>>
  /\ redoStack = <<>>
  /\ gmLog = <<>>
  /\ LatinIdle
  /\ CageIdle
  /\ ClueIdle
  /\ SolverIdle
  /\ GenIdle
  /\ ValidatorIdle
  /\ RngIdle
  /\ SearchIdle
  /\ PairIdle

\* Game.ts lines 170-172: canInteract
canInteract == gmStatus = "playing"

\* Game.ts lines 177-181: selectCell
SelectCell ==
  /\ canInteract
  /\ \E cell \in PlayedCells(gmPuzzle) :
       /\ gmSelected # cell
       /\ gmSelected' = cell
  /\ Logged("select", TRUE, <<>>)
  /\ UNCHANGED <<gmPuzzle, gmGrid, gmStatus, gmErrors, gmHintsUsed, hsHintsUsed,
                 undoStack, redoStack>>
  /\ UNCHANGED <<latinVars, cageVars, clueVars, solverVars, genVars, validatorVars, rngVars,
                 searchVars, pairVars>>

\* Game.ts lines 186-218 and 329-332: handleNumberInput outside notes mode,
\* with the win it may bring
HandleNumberInput ==
  /\ canInteract
  /\ gmSelected # <<>>
  /\ Len(undoStack) + Len(redoStack) < GameMaxStack
  /\ \E value \in 1 .. gmPuzzle.size :
       \E pushed \in {push(Stacks(undoStack, redoStack), gmGrid,
                           [type |-> "SET_CELL", cell |-> gmSelected, value |-> value,
                            previousValue |-> gmGrid[gmSelected.row][gmSelected.col]])} :
         /\ undoStack' = pushed.undoStack
         /\ redoStack' = pushed.redoStack
         /\ gmGrid' = setCell(gmGrid, gmSelected, value)
         /\ IF isComplete(gmPuzzle, gmGrid')
              THEN gmStatus' = "won" /\ gmErrors' = <<>>
              ELSE gmStatus' = gmStatus /\ gmErrors' = ValidationErrors(gmPuzzle, gmGrid')
  /\ Logged("input", TRUE, <<>>)
  /\ UNCHANGED <<gmPuzzle, gmSelected, gmHintsUsed, hsHintsUsed>>
  /\ UNCHANGED <<latinVars, cageVars, clueVars, solverVars, genVars, validatorVars, rngVars,
                 searchVars, pairVars>>

\* Game.ts lines 223-243: clearCell
ClearCell ==
  /\ canInteract
  /\ gmSelected # <<>>
  /\ Len(undoStack) + Len(redoStack) < GameMaxStack
  /\ \E pushed \in {IF gmGrid[gmSelected.row][gmSelected.col] # 0
                      THEN push(Stacks(undoStack, redoStack), gmGrid,
                                [type |-> "CLEAR_CELL", cell |-> gmSelected,
                                 previousValue |-> gmGrid[gmSelected.row][gmSelected.col]])
                      ELSE Stacks(undoStack, redoStack)} :
       /\ undoStack' = pushed.undoStack
       /\ redoStack' = pushed.redoStack
  /\ gmGrid' = clearCell(gmGrid, gmSelected)
  /\ gmErrors' = ValidationErrors(gmPuzzle, gmGrid')
  /\ Logged("clear", TRUE, <<>>)
  /\ UNCHANGED <<gmPuzzle, gmSelected, gmStatus, gmHintsUsed, hsHintsUsed>>
  /\ UNCHANGED <<latinVars, cageVars, clueVars, solverVars, genVars, validatorVars, rngVars,
                 searchVars, pairVars>>

\* Game.ts lines 248-262: undo
Undo ==
  /\ canInteract
  /\ \E popped \in {undo(Stacks(undoStack, redoStack))} :
       IF popped.state = <<>>
         THEN /\ Logged("undo", FALSE, <<>>)
              /\ UNCHANGED <<gmGrid, gmErrors, undoStack, redoStack>>
         ELSE \E saved \in {saveForRedo(popped.stacks, gmGrid, popped.state.action)} :
                /\ undoStack' = saved.undoStack
                /\ redoStack' = saved.redoStack
                /\ gmGrid' = popped.state.grid
                /\ gmErrors' = ValidationErrors(gmPuzzle, gmGrid')
                /\ Logged("undo", TRUE, <<>>)
  /\ UNCHANGED <<gmPuzzle, gmSelected, gmStatus, gmHintsUsed, hsHintsUsed>>
  /\ UNCHANGED <<latinVars, cageVars, clueVars, solverVars, genVars, validatorVars, rngVars,
                 searchVars, pairVars>>

\* Game.ts lines 267-277: redo
Redo ==
  /\ canInteract
  /\ \E popped \in {redo(Stacks(undoStack, redoStack))} :
       IF popped.state = <<>>
         THEN /\ Logged("redo", FALSE, <<>>)
              /\ UNCHANGED <<gmGrid, gmErrors, undoStack, redoStack>>
         ELSE /\ undoStack' = popped.stacks.undoStack
              /\ redoStack' = popped.stacks.redoStack
              /\ gmGrid' = popped.state.grid
              /\ gmErrors' = ValidationErrors(gmPuzzle, gmGrid')
              /\ Logged("redo", TRUE, <<>>)
  /\ UNCHANGED <<gmPuzzle, gmSelected, gmStatus, gmHintsUsed, hsHintsUsed>>
  /\ UNCHANGED <<latinVars, cageVars, clueVars, solverVars, genVars, validatorVars, rngVars,
                 searchVars, pairVars>>

\* Game.ts lines 290-308: showHint
ShowHint ==
  /\ canInteract
  /\ hsHintsUsed < GameMaxHints
  /\ \E hint \in {HintSystemGetHint(gmPuzzle, gmGrid)} :
       IF hint = <<>>
         THEN /\ Logged("hint", FALSE, <<>>)
              /\ UNCHANGED <<gmGrid, gmSelected, gmErrors, gmHintsUsed, hsHintsUsed>>
         ELSE /\ hsHintsUsed' = hsHintsUsed + 1
              /\ gmSelected' = hint.cell
              /\ gmHintsUsed' = gmHintsUsed + 1
              /\ IF hint.value # 0
                   THEN /\ gmGrid' = setCell(gmGrid, hint.cell, hint.value)
                        /\ gmErrors' = ValidationErrors(gmPuzzle, gmGrid')
                   ELSE UNCHANGED <<gmGrid, gmErrors>>
              /\ Logged("hint", TRUE, hint)
  /\ UNCHANGED <<gmPuzzle, gmStatus, undoStack, redoStack>>
  /\ UNCHANGED <<latinVars, cageVars, clueVars, solverVars, genVars, validatorVars, rngVars,
                 searchVars, pairVars>>

GameNext ==
  \/ SelectCell
  \/ HandleNumberInput
  \/ ClearCell
  \/ Undo
  \/ Redo
  \/ ShowHint

SpecGame == GameInit /\ [][GameNext]_vars

\* the latest handler call and the one before it
LastCall == gmLog[1]

CallBefore == gmLog[2]

\* C28: if every filled cell of the progress grid equals the solution at that
\* cell, every hint HintSystem.getHint returns with a value carries the
\* solution's value of the hinted cell, for every cage operation; so showHint
\* never writes a wrong value into a correct grid.
C28_HintCarriesSolutionValue ==
  (Len(gmLog) >= 1 /\ LastCall.op = "hint" /\ LastCall.ok
     /\ IsCorrectSoFar(gmPuzzle, LastCall.before)) =>
    /\ LastCall.hint.value # 0 =>
         LastCall.hint.value = gmPuzzle.solution[LastCall.hint.cell.row][LastCall.hint.cell.col]
    /\ IsCorrectSoFar(gmPuzzle, gmGrid)

\* C29: an undo right after a successful redo returns the progress grid to what
\* it was before that redo, and a redo right after a successful undo returns it
\* to what it was before that undo.
C29_UndoAndRedoInvertEachOther ==
  Len(gmLog) >= 2 =>
    /\ (LastCall.op = "undo" /\ LastCall.ok /\ CallBefore.op = "redo" /\ CallBefore.ok) =>
         gmGrid = CallBefore.before
    /\ (LastCall.op = "redo" /\ LastCall.ok /\ CallBefore.op = "undo" /\ CallBefore.ok) =>
         gmGrid = CallBefore.before



(***************************************************************************)
(* The two searches of LatinSquare.ts, one step of the recursion at a      *)
(* time: backtrack (lines 256-285) and the countSolutions closure of       *)
(* hasUniqueSolution (lines 294-322).  shStack is the call stack, the      *)
(* innermost level last; a level records the cell it works on, the value   *)
(* of its loop, where it stands, and the grid as it found it.              *)
(***************************************************************************)

\* a recursion level: "base" is a call with cellIndex >= totalCells, "loop" the
\* head of the value loop, "placed" the line after grid[row][col] = value,
\* "called" the recursive call; `entered` is the grid at the time of the call
Level(cellIndex, grid, size) ==
  [cellIndex |-> cellIndex, value |-> 1,
   pc |-> IF cellIndex >= size * size THEN "base" ELSE "loop",
   entered |-> grid]

Top == shStack[Len(shStack)]

TopRow == Top.cellIndex \div shPuzzle.size

TopCol == Top.cellIndex % shPuzzle.size

\* what a level does at its top with the next level's return value
Replaced(level) == [shStack EXCEPT ![Len(shStack)] = level]

Popped == SubSeq(shStack, 1, Len(shStack) - 1)

\* lines 273-274 and 309-310: the cage condition of the mode
CageAllows(mode, puzzle, grid, row, col) ==
  IF mode = "solve" THEN CageAllowsSolve(puzzle, grid, row, col)
  ELSE CageAllowsCount(puzzle, grid, row, col)

\* the layouts and solutions of the searched puzzles
SearchLayouts == [n \in SolverSizes |->
  IF n = 2
    THEN { << <<0, 1>>, <<2, 3>> >>, << <<0, 1, 3>>, <<2>> >> }
    ELSE { << <<0, 1>>, <<2, 5>>, <<3, 6>>, <<4>>, <<7, 8>> >>,
           << <<0, 1, 2>>, <<3, 4, 5>>, <<6, 7, 8>> >> }]

SearchSolutions == [n \in SolverSizes |->
  {g \in LatinGrids[n] : g[0] = [c \in Idx(n) |-> c + 1]}]

SearchOperationSets == {{"+"}, {"+", "-"}, Operations}

\* puzzles whose clues are derived from a solution
SearchDerived ==
  UNION {
    {[size |-> n, cages |-> assignClues(LayoutCages(n, layout), solution, operations)] :
       layout \in SearchLayouts[n], solution \in SearchSolutions[n],
       operations \in SearchOperationSets}
    : n \in SolverSizes}

\* an addition puzzle with the clue of one cage replaced by an arbitrary clue
SearchPerturbed ==
  UNION {
    {[p EXCEPT !.cages[k].clue = Clue(t, op)] :
       k \in DOMAIN p.cages, t \in 0 .. SolverMaxTarget, op \in Operations \cup {"none"}}
    : p \in {q \in SearchDerived : \A k \in DOMAIN q.cages :
                                     q.cages[k].clue.operation \in {"+", "none"}}}

\* a derived puzzle with one cage removed: its cells belong to no cage
SearchUncovered ==
  UNION {{[p EXCEPT !.cages = RemoveAt(p.cages, k)] : k \in DOMAIN p.cages} : p \in SearchDerived}

SearchPuzzles == SearchDerived \cup SearchPerturbed \cup SearchUncovered

\* lines 243-246 and 291-292, 327: the grid is created empty and the search is
\* called with cellIndex 0
SearchInit ==
  /\ shPuzzle \in SearchPuzzles
  /\ shMode \in {"solve", "count"}
  /\ shGrid = createEmptyGrid(shPuzzle.size)
  /\ shStack = <<Level(0, createEmptyGrid(shPuzzle.size), shPuzzle.size)>>
  /\ shCount = 0
  /\ shReturned = <<>>
  /\ shResult = <<>>
  /\ LatinIdle
  /\ CageIdle
  /\ ClueIdle
  /\ SolverIdle
  /\ GenIdle
  /\ ValidatorIdle
  /\ RngIdle
  /\ GameIdle
  /\ PairIdle

\* a level has returned and its caller has not yet looked at the value
HasReturned == DOMAIN shReturned # {}

\* the search is over: solvePuzzle has returned, or the promise is resolved
SearchDone == DOMAIN shResult # {}

\* the level at the top returns `value` to its caller
Returns(value) ==
  /\ shStack' = Popped
  /\ shReturned' = [value |-> value, entered |-> Top.entered]

\* a base case that stops the count only at the third solution
ReturnBaseStopsAtThree ==
  /\ shStack # <<>>
  /\ Top.pc = "base"
  /\ IF shMode = "solve"
       THEN /\ Returns(TRUE)
            /\ UNCHANGED shCount
       ELSE /\ shCount' = shCount + 1
            /\ Returns(shCount + 1 >= 3)
  /\ UNCHANGED <<shPuzzle, shMode, shGrid, shResult>>
  /\ UNCHANGED <<latinVars, cageVars, clueVars, solverVars, genVars, validatorVars,
               rngVars, gameVars, pairVars>>

\* lines 260-262: backtrack returns true; lines 297-300: solutionCount++ and
\* return solutionCount >= 2
ReturnBase ==
  /\ shStack # <<>>
  /\ Top.pc = "base"
  /\ IF shMode = "solve"
       THEN /\ Returns(TRUE)
            /\ UNCHANGED shCount
       ELSE /\ shCount' = shCount + 1
            /\ Returns(shCount + 1 >= 2)
  /\ UNCHANGED <<shPuzzle, shMode, shGrid, shResult>>
  /\ UNCHANGED <<latinVars, cageVars, clueVars, solverVars, genVars, validatorVars,
               rngVars, gameVars, pairVars>>

\* lines 268 and 284, 305 and 321: the loop is over, the level returns false
LoopEnds ==
  /\ shStack # <<>>
  /\ Top.pc = "loop"
  /\ Top.value > shPuzzle.size
  /\ Returns(FALSE)
  /\ UNCHANGED <<shPuzzle, shMode, shGrid, shCount, shResult>>
  /\ UNCHANGED <<latinVars, cageVars, clueVars, solverVars, genVars, validatorVars,
               rngVars, gameVars, pairVars>>

\* lines 269 and 306: isValidPlacement is false, the loop goes on
SkipValue ==
  /\ shStack # <<>>
  /\ Top.pc = "loop"
  /\ Top.value <= shPuzzle.size
  /\ ~isValidPlacement(shGrid, TopRow, TopCol, Top.value, shPuzzle.size)
  /\ shStack' = Replaced([Top EXCEPT !.value = Top.value + 1])
  /\ UNCHANGED <<shPuzzle, shMode, shGrid, shCount, shReturned, shResult>>
  /\ UNCHANGED <<latinVars, cageVars, clueVars, solverVars, genVars, validatorVars,
               rngVars, gameVars, pairVars>>

\* lines 269-270 and 306-307: grid[row][col] = value
Place ==
  /\ shStack # <<>>
  /\ Top.pc = "loop"
  /\ Top.value <= shPuzzle.size
  /\ isValidPlacement(shGrid, TopRow, TopCol, Top.value, shPuzzle.size)
  /\ shGrid' = SetCell(shGrid, TopRow, TopCol, Top.value)
  /\ shStack' = Replaced([Top EXCEPT !.pc = "placed"])
  /\ UNCHANGED <<shPuzzle, shMode, shCount, shReturned, shResult>>
  /\ UNCHANGED <<latinVars, cageVars, clueVars, solverVars, genVars, validatorVars,
               rngVars, gameVars, pairVars>>

\* a rejection that leaves the value in the cell
CageRejectsKeepingValue ==
  /\ shStack # <<>>
  /\ Top.pc = "placed"
  /\ ~CageAllows(shMode, shPuzzle, shGrid, TopRow, TopCol)
  /\ shStack' = Replaced([Top EXCEPT !.pc = "loop", !.value = Top.value + 1])
  /\ UNCHANGED <<shPuzzle, shMode, shGrid, shCount, shReturned, shResult>>
  /\ UNCHANGED <<latinVars, cageVars, clueVars, solverVars, genVars, validatorVars,
               rngVars, gameVars, pairVars>>

\* lines 273-274, 281 and 309-310, 318: the cage condition is false,
\* grid[row][col] = 0 and the loop goes on
CageRejects ==
  /\ shStack # <<>>
  /\ Top.pc = "placed"
  /\ ~CageAllows(shMode, shPuzzle, shGrid, TopRow, TopCol)
  /\ shGrid' = SetCell(shGrid, TopRow, TopCol, 0)
  /\ shStack' = Replaced([Top EXCEPT !.pc = "loop", !.value = Top.value + 1])
  /\ UNCHANGED <<shPuzzle, shMode, shCount, shReturned, shResult>>
  /\ UNCHANGED <<latinVars, cageVars, clueVars, solverVars, genVars, validatorVars,
               rngVars, gameVars, pairVars>>

\* lines 275 and 311: the recursive call with cellIndex + 1
Descend ==
  /\ shStack # <<>>
  /\ Top.pc = "placed"
  /\ CageAllows(shMode, shPuzzle, shGrid, TopRow, TopCol) = TRUE
  /\ shStack' = Append(Replaced([Top EXCEPT !.pc = "called"]),
                       Level(Top.cellIndex + 1, shGrid, shPuzzle.size))
  /\ UNCHANGED <<shPuzzle, shMode, shGrid, shCount, shReturned, shResult>>
  /\ UNCHANGED <<latinVars, cageVars, clueVars, solverVars, genVars, validatorVars,
               rngVars, gameVars, pairVars>>

\* lines 275-277: backtrack returns true; lines 311-314: grid[row][col] = 0 and
\* countSolutions returns true
ChildReturnedTrue ==
  /\ shStack # <<>>
  /\ Top.pc = "called"
  /\ HasReturned
  /\ shReturned.value
  /\ shGrid' = IF shMode = "solve" THEN shGrid ELSE SetCell(shGrid, TopRow, TopCol, 0)
  /\ Returns(TRUE)
  /\ UNCHANGED <<shPuzzle, shMode, shCount, shResult>>
  /\ UNCHANGED <<latinVars, cageVars, clueVars, solverVars, genVars, validatorVars,
               rngVars, gameVars, pairVars>>

\* lines 275, 281 and 311, 318: the call returned false, grid[row][col] = 0 and
\* the loop goes on
ChildReturnedFalse ==
  /\ shStack # <<>>
  /\ Top.pc = "called"
  /\ HasReturned
  /\ ~shReturned.value
  /\ shGrid' = SetCell(shGrid, TopRow, TopCol, 0)
  /\ shStack' = Replaced([Top EXCEPT !.pc = "loop", !.value = Top.value + 1])
  /\ shReturned' = <<>>
  /\ UNCHANGED <<shPuzzle, shMode, shCount, shResult>>
  /\ UNCHANGED <<latinVars, cageVars, clueVars, solverVars, genVars, validatorVars,
               rngVars, gameVars, pairVars>>

\* lines 246-250: solvePuzzle returns the grid or null (<<>>); lines 327-328:
\* resolve(solutionCount === 1)
Finish ==
  /\ shStack = <<>>
  /\ ~SearchDone
  /\ shResult' = [done |-> TRUE,
                  value |-> IF shMode = "count" THEN shCount = 1
                            ELSE IF shReturned.value THEN shGrid ELSE <<>>]
  /\ shReturned' = <<>>
  /\ UNCHANGED <<shPuzzle, shMode, shGrid, shStack, shCount>>
  /\ UNCHANGED <<latinVars, cageVars, clueVars, solverVars, genVars, validatorVars,
               rngVars, gameVars, pairVars>>

SearchNext ==
  \/ ReturnBase
  \/ LoopEnds
  \/ SkipValue
  \/ Place
  \/ CageRejects
  \/ Descend
  \/ ChildReturnedTrue
  \/ ChildReturnedFalse
  \/ Finish

SpecSearch == SearchInit /\ [][SearchNext]_vars

\* C21: during hasUniqueSolution the solution counter never exceeds 2, and from
\* the moment it reaches 2 no cell is assigned a value: each pending level only
\* clears its cell and returns true, and the promise resolves to false.
C21_CountStopsAtTwo ==
  [][shMode = "count" =>
       /\ shCount' <= 2
       /\ shCount = 2 =>
            /\ shCount' = 2
            /\ shStack # <<>> =>
                 /\ shStack' = Popped
                 /\ Top.pc = "called"
                 /\ shGrid' = SetCell(shGrid, TopRow, TopCol, 0)
                 /\ shReturned'.value
            /\ shStack = <<>> =>
                 /\ shGrid' = shGrid
                 /\ shResult' = [done |-> TRUE, value |-> FALSE]]_vars

C21_Witness ==
  /\ shMode = "count"
  /\ shCount = 2
  /\ shPuzzle.size = 3
  /\ shStack # <<>>
  /\ Len(shStack) < shPuzzle.size * shPuzzle.size
  /\ \E row, col \in Idx(shPuzzle.size) : shGrid[row][col] # 0

\* the cage has a cell that the grid leaves empty
HasEmptyCageCell(cage, grid) ==
  \E k \in DOMAIN cage.cells : grid[cage.cells[k].row][cage.cells[k].col] = 0

\* the complete fills of the cage with values in 1..size that keep the values
\* the grid holds, in cell order
CageFills(cage, grid, size) ==
  {f \in [DOMAIN cage.cells -> 1 .. size] :
     \A k \in DOMAIN cage.cells :
       grid[cage.cells[k].row][cage.cells[k].col] \in {0, f[k]}}

\* some complete fill that keeps the grid's values passes the exact check
HasValidFill(cage, grid, size) ==
  \E f \in CageFills(cage, grid, size) : isFullCageValid(cage, f)

\* the completion agrees with the grid wherever the grid holds a value
Extends(g, grid, size) ==
  \A row, col \in Idx(size) : grid[row][col] \in {0, g[row][col]}

\* C22: the partial check is a necessary condition: a partially filled cage
\* whose values can be extended to a complete fill that passes the exact check
\* is accepted, so the cage condition never rejects a placement that some
\* completion of the puzzle contains.
C22_PartialCheckIsNecessary ==
  (shStack # <<>> /\ Top.pc = "placed") =>
    \E k \in {getCageForCell(shPuzzle.cages, TopRow, TopCol)} :
      k # 0 =>
        /\ (HasEmptyCageCell(shPuzzle.cages[k], shGrid)
              /\ HasValidFill(shPuzzle.cages[k], shGrid, shPuzzle.size)) =>
             isPartialCageValid(shPuzzle.cages[k], FilledValues(shPuzzle.cages[k], shGrid))
        /\ (\E g \in Completions(shPuzzle) : Extends(g, shGrid, shPuzzle.size)) =>
             isCageSatisfied(shPuzzle.cages[k], shGrid, TRUE)

C22_Witness ==
  /\ shStack # <<>>
  /\ Top.pc = "placed"
  /\ \E k \in {getCageForCell(shPuzzle.cages, TopRow, TopCol)} :
       /\ k # 0
       /\ shPuzzle.cages[k].clue.operation \in {"+", "*"}
       /\ Len(shPuzzle.cages[k].cells) = 3
       /\ HasEmptyCageCell(shPuzzle.cages[k], shGrid)
       /\ Len(FilledValues(shPuzzle.cages[k], shGrid)) = 2
       /\ HasValidFill(shPuzzle.cages[k], shGrid, shPuzzle.size)
       /\ isPartialCageValid(shPuzzle.cages[k], FilledValues(shPuzzle.cages[k], shGrid))

\* the filled cells are the first cells of the row-major order
FilledPrefix(grid, size) ==
  \E n \in 0 .. size * size :
    \A k \in 0 .. size * size - 1 : (grid[k \div size][k % size] # 0) <=> k < n

\* no value stands twice in a row or a column
NoDuplicate(grid, size) ==
  \A row, col \in Idx(size) :
    grid[row][col] # 0 => isValidPlacement(grid, row, col, grid[row][col], size)

\* C27: in both modes a level that returns false leaves the grid as it was when
\* the level was entered; the filled cells are always a row-major prefix without
\* a duplicate in a row or column; when hasUniqueSolution is over the grid is
\* empty.
C27_GridRestoredOnFailure ==
  /\ (HasReturned /\ ~shReturned.value) => shGrid = shReturned.entered
  /\ FilledPrefix(shGrid, shPuzzle.size)
  /\ NoDuplicate(shGrid, shPuzzle.size)
  /\ (shMode = "count" /\ SearchDone) => shGrid = createEmptyGrid(shPuzzle.size)

C27_Witness ==
  /\ shMode = "count"
  /\ shCount = 1
  /\ HasReturned
  /\ ~shReturned.value
  /\ shPuzzle.size = 3
  /\ Len(shStack) >= 3
  /\ shGrid = shReturned.entered



(***************************************************************************)
(* Two generatePuzzle calls (src/unnamed/part_006 lines 12-61) in flight   *)
(* on the one thread of the event loop.  `calls` holds the two calls, the  *)
(* call whose code is on the stack (0 for none), the timers set by         *)
(* setTimeout(..., 0) in the order they were set, and the microtasks of    *)
(* the resolved promises.                                                  *)
(***************************************************************************)

CallIds == 1 .. 2

PairDifficulties == {"hard", "expert"}

\* the configs of the two calls: size 2 with no seed or a seed of one
\* character, and one call of size 8, which is not verified
PairConfigs ==
  {c \in Configs : c.size = 2 /\ c.difficulty \in PairDifficulties
                     /\ (c.hasSeed => Len(c.seed) = 1)}
  \cup {[size |-> 8, difficulty |-> "hard", hasSeed |-> TRUE, seed |-> <<51>>]}

\* what a call returns when it runs alone: attempts, promise and content
ReturnedAlone(config) ==
  LET r == AttemptsFrom(config, createRNG(SeedOrNow(config, 0)), 0)
  IN [attempts |-> r.attempts, promise |-> r.promise, content |-> r.content]

\* a call before it is made; yields and resolves count what the
\* hasUniqueSolution call of the current attempt has done, `alone` is the
\* outcome of the same call run alone
NewCall(config) ==
  [config |-> config, pc |-> "start", rng |-> Word(0, 0), attempts |-> 0,
   puzzle |-> NoPuzzle, hasUnique |-> FALSE, promise |-> "pending",
   content |-> NoPuzzle, yields |-> 0, resolves |-> 0,
   alone |-> ReturnedAlone(config)]

PairInit ==
  /\ \E first, second \in PairConfigs :
       calls = [call |-> [c \in CallIds |-> NewCall(IF c = 1 THEN first ELSE second)],
                running |-> 0, timers |-> <<>>, micro |-> <<>>]
  /\ LatinIdle
  /\ CageIdle
  /\ ClueIdle
  /\ SolverIdle
  /\ GenIdle
  /\ ValidatorIdle
  /\ RngIdle
  /\ GameIdle
  /\ SearchIdle

\* the positions inside a synchronous run of a call's code
SyncPositions == {"loop", "executor", "count", "counting", "resolve"}

\* lines 12-18: a task calls generatePuzzle: the call creates its SeededRNG and
\* sets attempts to 0
PairCall(c) ==
  /\ calls.running = 0
  /\ calls.call[c].pc = "start"
  /\ calls' = [calls EXCEPT !.running = c,
                            !.call[c].pc = "loop",
                            !.call[c].rng = createRNG(SeedOrNow(calls.call[c].config, 0)),
                            !.call[c].attempts = 0]
  /\ UNCHANGED <<latinVars, cageVars, clueVars, solverVars, genVars, validatorVars,
               rngVars, gameVars, searchVars>>

\* lines 20-50 and 57: one pass of the loop up to the call of
\* hasUniqueSolution, or up to the return for a size above the threshold
PairAttempt(c) ==
  /\ calls.running = c
  /\ calls.call[c].pc = "loop"
  /\ calls.call[c].attempts < maxAttempts
  /\ \E built \in {BuildPuzzle(calls.call[c].config, calls.call[c].rng, 0)} :
       calls' = IF calls.call[c].config.size <= VerifyMaxSize
                  THEN [calls EXCEPT !.call[c].attempts = @ + 1,
                                     !.call[c].puzzle = built.puzzle,
                                     !.call[c].rng = built.seed,
                                     !.call[c].yields = 0,
                                     !.call[c].resolves = 0,
                                     !.call[c].pc = "executor"]
                  ELSE [calls EXCEPT !.call[c].attempts = @ + 1,
                                     !.call[c].puzzle = built.puzzle,
                                     !.call[c].rng = built.seed,
                                     !.call[c].pc = "done",
                                     !.call[c].promise = "fulfilled",
                                     !.call[c].content = Content(built.puzzle),
                                     !.running = 0]
  /\ UNCHANGED <<latinVars, cageVars, clueVars, solverVars, genVars, validatorVars,
               rngVars, gameVars, searchVars>>

\* a hasUniqueSolution that starts the count in the promise executor
PairSetTimerCountsAtOnce(c) ==
  /\ calls.running = c
  /\ calls.call[c].pc = "executor"
  /\ calls' = [calls EXCEPT !.call[c].pc = "counting"]
  /\ UNCHANGED <<latinVars, cageVars, clueVars, solverVars, genVars, validatorVars,
               rngVars, gameVars, searchVars>>

\* LatinSquare.ts lines 290-292 and 325-330: the promise executor sets the
\* timer; part_006 line 50: the await gives the thread back
PairSetTimer(c) ==
  /\ calls.running = c
  /\ calls.call[c].pc = "executor"
  /\ calls' = [calls EXCEPT !.call[c].pc = "await",
                            !.call[c].yields = @ + 1,
                            !.timers = Append(@, c),
                            !.running = 0]
  /\ UNCHANGED <<latinVars, cageVars, clueVars, solverVars, genVars, validatorVars,
               rngVars, gameVars, searchVars>>

\* LatinSquare.ts line 326: the thread is free and no microtask waits: the
\* oldest timer fires and its callback starts
PairTimerFires(c) ==
  /\ calls.running = 0
  /\ calls.micro = <<>>
  /\ calls.timers # <<>>
  /\ Head(calls.timers) = c
  /\ calls' = [calls EXCEPT !.timers = Tail(@),
                            !.running = c,
                            !.call[c].pc = "count"]
  /\ UNCHANGED <<latinVars, cageVars, clueVars, solverVars, genVars, validatorVars,
               rngVars, gameVars, searchVars>>

\* LatinSquare.ts line 327: countSolutions(0) is called
PairCountStarts(c) ==
  /\ calls.running = c
  /\ calls.call[c].pc = "count"
  /\ calls' = [calls EXCEPT !.call[c].pc = "counting"]
  /\ UNCHANGED <<latinVars, cageVars, clueVars, solverVars, genVars, validatorVars,
               rngVars, gameVars, searchVars>>

\* LatinSquare.ts lines 294-322 and 327: countSolutions(0) returns
PairCountEnds(c) ==
  /\ calls.running = c
  /\ calls.call[c].pc = "counting"
  /\ calls' = [calls EXCEPT !.call[c].pc = "resolve",
                            !.call[c].hasUnique = UniqueByCount(calls.call[c].puzzle)]
  /\ UNCHANGED <<latinVars, cageVars, clueVars, solverVars, genVars, validatorVars,
               rngVars, gameVars, searchVars>>

\* LatinSquare.ts lines 328-329: resolve(solutionCount === 1) queues the
\* continuation of the awaiting call; the callback ends
PairResolve(c) ==
  /\ calls.running = c
  /\ calls.call[c].pc = "resolve"
  /\ calls' = [calls EXCEPT !.call[c].pc = "resumable",
                            !.call[c].resolves = @ + 1,
                            !.micro = Append(@, c),
                            !.running = 0]
  /\ UNCHANGED <<latinVars, cageVars, clueVars, solverVars, genVars, validatorVars,
               rngVars, gameVars, searchVars>>

\* part_006 lines 50-57: generatePuzzle resumes after the await: continue, or
\* return puzzle
PairResume(c) ==
  /\ calls.running = 0
  /\ calls.micro # <<>>
  /\ Head(calls.micro) = c
  /\ calls' = IF calls.call[c].hasUnique
                THEN [calls EXCEPT !.micro = Tail(@),
                                   !.call[c].pc = "done",
                                   !.call[c].promise = "fulfilled",
                                   !.call[c].content = Content(calls.call[c].puzzle)]
                ELSE [calls EXCEPT !.micro = Tail(@),
                                   !.call[c].pc = "loop",
                                   !.running = c]
  /\ UNCHANGED <<latinVars, cageVars, clueVars, solverVars, genVars, validatorVars,
               rngVars, gameVars, searchVars>>

\* part_006 line 60: the loop has ended: throw new Error(...)
PairThrow(c) ==
  /\ calls.running = c
  /\ calls.call[c].pc = "loop"
  /\ ~(calls.call[c].attempts < maxAttempts)
  /\ calls' = [calls EXCEPT !.call[c].pc = "done",
                            !.call[c].promise = "rejected",
                            !.running = 0]
  /\ UNCHANGED <<latinVars, cageVars, clueVars, solverVars, genVars, validatorVars,
               rngVars, gameVars, searchVars>>

PairNext ==
  \E c \in CallIds :
    \/ PairCall(c)
    \/ PairAttempt(c)
    \/ PairSetTimer(c)
    \/ PairTimerFires(c)
    \/ PairCountStarts(c)
    \/ PairCountEnds(c)
    \/ PairResolve(c)
    \/ PairResume(c)
    \/ PairThrow(c)

SpecPair == PairInit /\ [][PairNext]_vars

\* what the call has returned: attempts, promise and content
Returned(call) ==
  [attempts |-> call.attempts, promise |-> call.promise, content |-> call.content]

\* the positions inside the timer callback of hasUniqueSolution
CallbackPositions == {"count", "counting", "resolve"}

\* the state part of C24
OneYieldEach ==
  \A c \in CallIds :
    /\ calls.call[c].pc \in SyncPositions => calls.running = c
    /\ calls.call[c].pc \in CallbackPositions =>
         calls.call[c].yields = 1 /\ calls.call[c].resolves = 0
    /\ calls.call[c].pc = "await" =>
         calls.call[c].yields = 1 /\ calls.call[c].resolves = 0
    /\ calls.call[c].pc = "resumable" =>
         calls.call[c].yields = 1 /\ calls.call[c].resolves = 1
    /\ calls.call[c].promise # "pending" => Returned(calls.call[c]) = calls.call[c].alone

\* the step part of C24: while a call is inside its timer callback the other
\* call does not move, no timer fires and no continuation runs
CountUninterrupted ==
  \A c \in CallIds :
    calls.call[c].pc \in CallbackPositions =>
      /\ \A d \in CallIds \ {c} : calls'.call[d] = calls.call[d]
      /\ calls'.timers = calls.timers
      /\ calls'.call[c].pc \in CallbackPositions \cup {"resumable"}

\* C24: hasUniqueSolution yields exactly once and before any search step, the
\* count runs as one uninterrupted step on the thread, the promise resolves
\* exactly once; two calls in flight share no state: each returns the attempts,
\* promise and content of the same call run alone.
C24_OneYieldAndNoSharedState == []OneYieldEach /\ [][CountUninterrupted]_vars

C24_Witness ==
  /\ calls.call[1].pc = "await"
  /\ calls.call[1].attempts >= 2
  /\ calls.call[2].pc = "counting"
  /\ calls.call[2].attempts >= 2
  /\ calls.call[2].yields = 1
  /\ calls.call[1].config # calls.call[2].config

=============================================================================
